---------------------------- MODULE Spec2Model ----------------------------
(***************************************************************************)
(* POV report generation backend (src/backend): the structured store       *)
(* (database.py), the completion adapter (llm.py) and the workflows that   *)
(* drive a report through its status (main.py, pov_function.py).           *)
(*                                                                         *)
(* Tables are sequences of rows in insertion order.  A request is a        *)
(* handler invocation.  generate_pov_titles and generate_pov_to_database   *)
(* advance one stage per step; generate_pov_outcomes and the selection     *)
(* update are one step each, taken together with the choice of the call    *)
(* that raises, if any.  Every store call and completion call may raise.   *)
(* The context gather, the title validation and the split of the summary   *)
(* text are functions of their arguments: each is also called on its own.  *)
(***************************************************************************)
EXTENDS Integers, Sequences, FiniteSets, TLC

\* ------------------------------------------------------------------ bounds
\* largest num_outcomes a caller asks for, and longest title list a completion gives
MaxOutcomes == 2
\* largest batch handed to llm_call in the fan-out specification
MaxK == 3
\* the rows the detail table holds at most when the saves are called directly
MaxRows == 4

\* ------------------------------------------------------------- vocabulary
ReportIds == {1}          \* the lifecycle of one report: every store call filters by report_id
Gens == {1, 2}            \* the distinct answers a completion call may give to one prompt
Users == {"u1", "u2"}
Creators == {"u1"}        \* who creates the report; any user may call the other endpoints
Slots == {1, 2}
SeqSlots == {1}
TitlePool == <<"ta", "tb", "tc", "td">>
Null == "null"

VARIABLES
    pov_reports,         \* [ReportIds -> row]: exists, status, user_id, context_data
    pov_outcome_titles,  \* rows: report_id, title_index, title, selected
    pov_outcomes,        \* rows: report_id, outcome_index, title, content
    pov_summary,         \* rows: report_id, summary_content
    grok_research,       \* rows: report_id, user_id
    req,                 \* [Slots -> request]: the handler invocation of each slot
    fan,                 \* one llm_call batch: prompts, per-task results, completion order
    calc,                \* one call of a function of its arguments alone: op, pc, arg, out
    accounts             \* [Users -> account]: the quota counters and the reports of a user

vars == <<pov_reports, pov_outcome_titles, pov_outcomes, pov_summary,
          grok_research, req, fan, calc, accounts>>
store == <<pov_reports, pov_outcome_titles, pov_outcomes, pov_summary, grok_research>>

\* ---------------------------------------------------------------- helpers
IdleCalc == [op |-> "none", pc |-> "idle", arg |-> <<>>, out |-> <<>>]

\* a user nothing has been charged to and who has made no report
NoAccount == [quota |-> 0, used |-> 0, reports |-> <<>>]

NoAccounts == [u \in Users |-> NoAccount]

Range(f) == {f[i] : i \in DOMAIN f}

Take(seq, n) == SubSeq(seq, 1, IF n < Len(seq) THEN n ELSE Len(seq))

RowsOf(tbl, rid) == SelectSeq(tbl, LAMBDA row : row.report_id = rid)

RowsNotOf(tbl, rid) == SelectSeq(tbl, LAMBDA row : row.report_id # rid)

\* .order("title_index"): a stable insertion sort of the rows by title_index
RECURSIVE InsertByIndex(_, _)
InsertByIndex(sorted, row) ==
    IF sorted = <<>> THEN <<row>>
    ELSE IF row.title_index < Head(sorted).title_index THEN <<row>> \o sorted
    ELSE <<Head(sorted)>> \o InsertByIndex(Tail(sorted), row)

RECURSIVE OrderByTitleIndex(_)
OrderByTitleIndex(rows) ==
    IF rows = <<>> THEN <<>>
    ELSE InsertByIndex(OrderByTitleIndex(SubSeq(rows, 1, Len(rows) - 1)), rows[Len(rows)])

\* ------------------------------------------------------- the context text
\* One section per gathered sub-result, in the fixed order of the f-string.
\* What a crawl returns is tagged with the gather that made it: the pages
\* read by a later gather are not those read by an earlier one.
\* Values are tuples.  None, and what Python takes for false: None, {}, ""
PyNone == <<"None">>

Truthy(x) == x # PyNone /\ x # <<>>

\* json.dumps(x, indent=2): the JSON text of x
JsonDumps(x) == <<"json", x>>

\* research = result["data"] on success, else None;
\* {json.dumps(research) if research else "Not available"}
ResearchSection(result) ==
    LET research == IF result.status = "success" THEN result.data ELSE PyNone
    IN IF Truthy(research) THEN JsonDumps(research) ELSE <<"Not available">>

BuildContext(vendor_research, customer_research) ==
    <<ResearchSection(vendor_research), ResearchSection(customer_research)>>

\* the fallback of generate_selected_outcomes_only appends the Grok block
BuildFallbackContext(vendor_research, customer_research, grok) ==
    BuildContext(vendor_research, customer_research)
        \o (IF grok THEN <<"Grok Enhanced Research">> ELSE <<>>)

\* process_research: success with the crawled data, or an error status
ProcessResearch(research_type, gather, crawl_ok) ==
    IF crawl_ok THEN [status |-> "success", data |-> <<research_type, gather>>]
    ELSE [status |-> "error", data |-> <<>>]

\* ------------------------------------------------------------ completions
DetailPrompt(ctx, title) == [kind |-> "detail", ctx |-> ctx, title |-> title, n |-> 0]

SummaryPrompt(ctx, n) == [kind |-> "summary", ctx |-> ctx, title |-> "", n |-> n]

\* The text a completion call answers a prompt with: an answer to that
\* prompt's question (its kind, title and count); the prompts of one run share
\* their context.  gen tells apart the answers the model may give.
Completion(prompt, gen) ==
    [kind |-> prompt.kind, title |-> prompt.title, n |-> prompt.n, gen |-> gen,
     error |-> FALSE]

\* asyncio.gather: the results in the order of the awaitables
LlmCall(instructions, gen) ==
    [i \in 1..Len(instructions) |-> Completion(instructions[i], gen)]

\* the placeholder generate_selected_outcomes_only returns when the summary call raises
SummaryErrorText(n) == [kind |-> "summary", title |-> "", n |-> n, gen |-> 0, error |-> TRUE]

\* -------------------------------------------------------- store operations
NoRow == [exists |-> FALSE, status |-> Null, user_id |-> Null, context_data |-> <<>>]

FreeIds == {r \in ReportIds : ~pov_reports[r].exists}

NewId == CHOOSE r \in FreeIds : \A q \in FreeIds : r <= q

CreatePovReport(reports, rid, user) ==
    [reports EXCEPT ![rid] = [exists |-> TRUE, status |-> "processing",
                              user_id |-> user, context_data |-> <<>>]]

\* a save that numbers the titles from 1
SaveOutcomeTitles_from_one(tbl, rid, titles) ==
    tbl \o [i \in 1..Len(titles) |->
               [report_id |-> rid, title_index |-> i, title |-> titles[i],
                selected |-> FALSE]]

\* enumerate(titles): title_index from 0, selected False
SaveOutcomeTitles(tbl, rid, titles) ==
    tbl \o [i \in 1..Len(titles) |->
               [report_id |-> rid, title_index |-> i - 1, title |-> titles[i],
                selected |-> FALSE]]

SaveOutcomeDetails(tbl, rid, outcomes) ==
    tbl \o [i \in 1..Len(outcomes) |->
               [report_id |-> rid, outcome_index |-> i - 1, title |-> <<"Outcome", i>>,
                content |-> outcomes[i]]]

\* a delete that removes nothing
DeleteOutcomes_nothing(tbl, rid) == tbl

DeleteOutcomes(tbl, rid) == RowsNotOf(tbl, rid)

InsertSelectedOutcomes(tbl, rid, outcomes_data) ==
    tbl \o [i \in 1..Len(outcomes_data) |->
               [report_id |-> rid, outcome_index |-> outcomes_data[i].title_index,
                title |-> outcomes_data[i].title, content |-> outcomes_data[i].content]]

DeleteSummary(tbl, rid) == RowsNotOf(tbl, rid)

\* the row of one summary text (how the text is cut into the row's two
\* columns is SummaryData)
InsertSummary(tbl, rid, summary_content) ==
    Append(tbl, [report_id |-> rid, summary_content |-> summary_content])

\* variants of the status write: one that writes completed whatever is asked,
\* one that swaps completed and failed, one that writes titles_generated
\* whatever is asked, one that writes nothing
UpdateReportStatus_completed(reports, rid, status) ==
    [reports EXCEPT ![rid].status = "completed"]

UpdateReportStatus_swapped(reports, rid, status) ==
    [reports EXCEPT ![rid].status = IF status = "completed" THEN "failed"
                                    ELSE IF status = "failed" THEN "completed"
                                    ELSE status]

UpdateReportStatus_titles_generated(reports, rid, status) ==
    [reports EXCEPT ![rid].status = "titles_generated"]

UpdateReportStatus_nothing(reports, rid, status) == reports

\* .update(...).eq("id", report_id): no row, no change, no error
UpdateReportStatus(reports, rid, status) ==
    IF reports[rid].exists THEN [reports EXCEPT ![rid].status = status] ELSE reports

SaveContextData(reports, rid, context_data) ==
    IF reports[rid].exists THEN [reports EXCEPT ![rid].context_data = context_data]
    ELSE reports

\* an ownership check that leaves out the user_id filter
Owns_anyone(reports, rid, user) == reports[rid].exists

\* a report is the user's only while it is titles_generated
Owns_titles_generated(reports, rid, user) ==
    /\ reports[rid].exists /\ reports[rid].user_id = user
    /\ reports[rid].status = "titles_generated"

\* .eq("id", report_id).eq("user_id", user_id) finds a row
Owns(reports, rid, user) == reports[rid].exists /\ reports[rid].user_id = user

\* a read of the titles that leaves out the selected filter
GetSelectedTitles_every_title(tbl, rid) ==
    OrderByTitleIndex(SelectSeq(tbl, LAMBDA row : row.report_id = rid))

\* .eq("selected", True).order("title_index")
GetSelectedTitles(tbl, rid) ==
    OrderByTitleIndex(SelectSeq(tbl, LAMBDA row : row.report_id = rid /\ row.selected))

\* the per-index updates without the reset before them
UpdateSelectedTitles_no_reset(tbl, rid, selected_indices) ==
    [i \in 1..Len(tbl) |->
        IF tbl[i].report_id = rid /\ tbl[i].title_index \in selected_indices
        THEN [tbl[i] EXCEPT !.selected = TRUE]
        ELSE tbl[i]]

\* reset every title of the report, then set the listed indices
UpdateSelectedTitles(tbl, rid, selected_indices) ==
    [i \in 1..Len(tbl) |->
        IF tbl[i].report_id = rid
        THEN [tbl[i] EXCEPT !.selected = (tbl[i].title_index \in selected_indices)]
        ELSE tbl[i]]

\* ------------------------------------------------------- title generation
\* What json.loads makes of the title completion: not JSON at all, a JSON
\* object (items: its keys), or a JSON list (items: its elements).
TitleResponses ==
    {[shape |-> sh, items |-> Take(TitlePool, m)] :
        sh \in {"garbage", "object", "list"}, m \in 0..MaxOutcomes}

\* a validation that keeps a longer list whole
ParseTitlesOnly_untruncated(resp, num_outcomes) ==
    IF resp.shape # "list" THEN [ok |-> FALSE, titles |-> <<>>]
    ELSE IF Len(resp.items) = 0 THEN [ok |-> FALSE, titles |-> <<>>]
    ELSE [ok |-> TRUE, titles |-> resp.items]

\* generate_pov_titles_only: the validation of the parsed value
ParseTitlesOnly(resp, num_outcomes) ==
    IF resp.shape # "list" THEN [ok |-> FALSE, titles |-> <<>>]
    ELSE IF Len(resp.items) = 0 THEN [ok |-> FALSE, titles |-> <<>>]
    ELSE IF Len(resp.items) > num_outcomes
         THEN [ok |-> TRUE, titles |-> Take(resp.items, num_outcomes)]
    ELSE [ok |-> TRUE, titles |-> resp.items]

\* --------------------------------------------------------------- requests
IdleReq ==
    [kind |-> "none", pc |-> "idle", rid |-> 0, user |-> Null, num_outcomes |-> 0,
     gen |-> 0, grok |-> FALSE, shape |-> "", titles |-> <<>>, ctx |-> <<>>,
     indices |-> {}, todo |-> {}, before |-> {},
     ctx_load |-> "", prompts |-> <<>>, overwrite |-> FALSE,
     from |-> Null, stage |-> "", marked |-> FALSE, short |-> FALSE,
     result |-> "none"]

Free(s) == req[s].pc = "idle"

At(s, kind, pc) == req[s].kind = kind /\ req[s].pc = pc

Begin(s, kind, user) ==
    [IdleReq EXCEPT !.kind = kind, !.user = user]

\* the response leaves the handler: result is "ok" or the error's status code
Finish(r, result) ==
    [IdleReq EXCEPT !.kind = r.kind, !.pc = "done", !.short = r.short,
                    !.result = result]

\* the response has been sent and the handler's locals are gone
Return(s) ==
    /\ req[s].pc = "done"
    /\ req' = [req EXCEPT ![s] = IdleReq]
    /\ UNCHANGED <<store, fan, calc, accounts>>

\* The boolean a save function returns: len(result.data) compared with the
\* number of rows sent.  `answered` is whether the store's answer lists every
\* row of the statement (an answer may list fewer: the representation of a
\* row that the caller may not read back is left out).
SaveReturns(answered) == answered

\* ---------------------------------------- Phase 1: generate_pov_titles
\* Grok research (its failure is absorbed), then create_pov_report.
P1Start(s) ==
    /\ Free(s) /\ FreeIds # {}
    /\ \E user \in Creators, n \in 1..MaxOutcomes, grok \in BOOLEAN, ok \in BOOLEAN :
        LET r0 == [Begin(s, "p1", user) EXCEPT !.num_outcomes = n, !.grok = grok] IN
        IF ok
        THEN /\ pov_reports' = CreatePovReport(pov_reports, NewId, user)
             /\ req' = [req EXCEPT ![s] =
                            [r0 EXCEPT !.rid = NewId, !.pc = "p1_titles"]]
        ELSE /\ req' = [req EXCEPT ![s] = Finish(r0, "500")]
             /\ UNCHANGED pov_reports
    /\ UNCHANGED <<pov_outcome_titles, pov_outcomes, pov_summary, grok_research, fan, calc, accounts>>

\* generate_pov_titles_only: gather the context, one title completion, parse it
P1Titles(s) ==
    /\ At(s, "p1", "p1_titles")
    /\ \E llm_ok \in BOOLEAN, resp \in TitleResponses :
        LET parsed == ParseTitlesOnly(resp, req[s].num_outcomes)
            vendor_research == ProcessResearch("vendor", "phase1", TRUE)
            customer_research == ProcessResearch("customer", "phase1", TRUE)
        IN
        IF llm_ok /\ parsed.ok
        THEN req' = [req EXCEPT ![s].pc = "p1_save_titles",
                                ![s].shape = resp.shape,
                                ![s].titles = parsed.titles,
                                ![s].ctx = BuildContext(vendor_research, customer_research)]
        ELSE req' = [req EXCEPT ![s].pc = "p1_fail"]
    /\ UNCHANGED <<store, fan, calc, accounts>>

\* save_outcome_titles: the insert raises, or it runs and the save returns
\* whether the answer lists as many rows as were sent; the handler does not
\* read that value
P1SaveTitles(s) ==
    /\ At(s, "p1", "p1_save_titles")
    /\ \E ok \in BOOLEAN, answered \in BOOLEAN :
        IF ok
        THEN /\ pov_outcome_titles' =
                    SaveOutcomeTitles(pov_outcome_titles, req[s].rid, req[s].titles)
             /\ req' = [req EXCEPT ![s].pc =
                            IF req[s].grok THEN "p1_save_grok" ELSE "p1_save_ctx",
                                     ![s].short = ~SaveReturns(answered)]
        ELSE /\ req' = [req EXCEPT ![s].pc = "p1_fail"]
             /\ UNCHANGED pov_outcome_titles
    /\ UNCHANGED <<pov_reports, pov_outcomes, pov_summary, grok_research, fan, calc, accounts>>

\* create_grok_research, only when the Grok research produced data
P1SaveGrok(s) ==
    /\ At(s, "p1", "p1_save_grok")
    /\ \E ok \in BOOLEAN :
        IF ok
        THEN /\ grok_research' =
                    Append(grok_research,
                           [report_id |-> req[s].rid, user_id |-> req[s].user])
             /\ req' = [req EXCEPT ![s].pc = "p1_save_ctx"]
        ELSE /\ req' = [req EXCEPT ![s].pc = "p1_fail"]
             /\ UNCHANGED grok_research
    /\ UNCHANGED <<pov_reports, pov_outcome_titles, pov_outcomes, pov_summary, fan, calc, accounts>>

P1SaveContext(s) ==
    /\ At(s, "p1", "p1_save_ctx")
    /\ \E ok \in BOOLEAN :
        IF ok
        THEN /\ pov_reports' = SaveContextData(pov_reports, req[s].rid, <<req[s].ctx>>)
             /\ req' = [req EXCEPT ![s].pc = "p1_status"]
        ELSE /\ req' = [req EXCEPT ![s].pc = "p1_fail"]
             /\ UNCHANGED pov_reports
    /\ UNCHANGED <<pov_outcome_titles, pov_outcomes, pov_summary, grok_research, fan, calc, accounts>>

\* update_report_status(titles_generated); increment_user_report_count absorbs
\* its own errors, so nothing after this write raises
P1Status(s) ==
    /\ At(s, "p1", "p1_status")
    /\ \E ok \in BOOLEAN :
        IF ok
        THEN /\ pov_reports' =
                    UpdateReportStatus(pov_reports, req[s].rid, "titles_generated")
             /\ req' = [req EXCEPT ![s] = Finish(req[s], "ok")]
        ELSE /\ req' = [req EXCEPT ![s].pc = "p1_fail"]
             /\ UNCHANGED pov_reports
    /\ UNCHANGED <<pov_outcome_titles, pov_outcomes, pov_summary, grok_research, fan, calc, accounts>>

\* except Exception: update_report_status(failed), then HTTP 500; when that
\* write raises too, the outer handler answers 500 and the status stays
P1Fail(s) ==
    /\ At(s, "p1", "p1_fail")
    /\ \E ok \in BOOLEAN :
        /\ pov_reports' = IF ok THEN UpdateReportStatus(pov_reports, req[s].rid, "failed")
                          ELSE pov_reports
        /\ req' = [req EXCEPT ![s] = [Finish(req[s], "500") EXCEPT !.marked = ok]]
    /\ UNCHANGED <<pov_outcome_titles, pov_outcomes, pov_summary, grok_research, fan, calc, accounts>>

\* ------------------------------- Selection: update_selected_titles_endpoint
\* The ownership check, then the reset and the per-index updates.
SelUpdate(s) ==
    /\ Free(s)
    /\ \E user \in Users, rid \in ReportIds :
        LET r0 == [IdleReq EXCEPT !.kind = "sel"] IN
        IF Owns(pov_reports, rid, user)
        THEN \E applied \in SUBSET (0..MaxOutcomes),
                raised \in {"nothing", "reset", "update"} :
             \* `applied` is the part of the requested indices that was set: all
             \* of them when nothing raises, none when the reset raises, those
             \* before the index whose update raises otherwise (the list being
             \* in any order, any part of a longer request)
             /\ raised = "reset" => applied = {}
             /\ raised = "update" => applied # 0..MaxOutcomes
             /\ pov_outcome_titles' =
                    IF raised # "reset"
                    THEN UpdateSelectedTitles(pov_outcome_titles, rid, applied)
                    ELSE pov_outcome_titles
             /\ req' = [req EXCEPT ![s] =
                           Finish(r0, IF raised = "nothing" THEN "ok" ELSE "500")]
        ELSE /\ req' = [req EXCEPT ![s] = Finish(r0, "500")]
             /\ UNCHANGED pov_outcome_titles
    /\ UNCHANGED <<pov_reports, pov_outcomes, pov_summary, grok_research, fan, calc, accounts>>

\* ------------------------------------- Phase 2: generate_pov_outcomes
HasGrok(rid, user) ==
    \E i \in 1..Len(grok_research) :
        grok_research[i].report_id = rid /\ grok_research[i].user_id = user

\* get_context_data: raises when the row is not the user's or holds no context
ContextLoads(reports, rid, user) ==
    Owns(reports, rid, user) /\ reports[rid].context_data # <<>>

\* a Step 0 that gathers the context again whatever is stored
SelectedContext_regather(reports, rid, user, load_ok, grok) ==
    BuildFallbackContext(ProcessResearch("vendor", "phase2", TRUE),
                         ProcessResearch("customer", "phase2", TRUE), grok)

\* generate_selected_outcomes_only, Step 0: the stored background_context, or
\* on any error of the load the context gathered again (with the Grok block)
SelectedContext(reports, rid, user, load_ok, grok) ==
    IF load_ok /\ ContextLoads(reports, rid, user)
    THEN reports[rid].context_data[1]
    ELSE BuildFallbackContext(ProcessResearch("vendor", "phase2", TRUE),
                              ProcessResearch("customer", "phase2", TRUE), grok)

\* generate_selected_outcomes_only, Step 2: one prompt per selected title,
\* one llm_call batch
SelectedDetails(ctx, selected_titles, gen) ==
    LlmCall([i \in 1..Len(selected_titles) |-> DetailPrompt(ctx, selected_titles[i].title)],
            gen)

\* generate_selected_outcomes_only, Step 3: the summary completion, or the
\* placeholder text when the call raises
SelectedSummary(ctx, selected_titles, gen, summary_ok) ==
    IF summary_ok THEN Completion(SummaryPrompt(ctx, Len(selected_titles)), gen)
    ELSE SummaryErrorText(Len(selected_titles))

\* the prompts generate_selected_outcomes_only hands to llm_call: one detail
\* prompt per selected title, then, the detail batch having returned, the
\* summary prompt
SelectedPrompts(ctx, selected_titles, details_ok) ==
    [i \in 1..Len(selected_titles) |-> DetailPrompt(ctx, selected_titles[i].title)]
    \o (IF details_ok THEN <<SummaryPrompt(ctx, Len(selected_titles))>> ELSE <<>>)

\* outcomes_data: selected_titles[i] joined with result["outcomes"][i]
OutcomesData(selected_titles, outcomes) ==
    [i \in 1..Len(selected_titles) |->
        [title_index |-> selected_titles[i].title_index,
         title |-> selected_titles[i].title,
         content |-> outcomes[i]]]

\* The store writes of the inner try, in order; a run performs the first
\* `written` of them and the next one raises (all of them: nothing raises).
P2Writes ==
    <<"delete_outcomes", "insert_outcomes", "delete_summary", "insert_summary", "status">>

\* how many of the two statements of a save have run when `written` writes of
\* the handler have, the save's first statement being write number `first`
Statements(written, first) ==
    IF written < first THEN 0 ELSE IF written = first THEN 1 ELSE 2

\* a save of the summary that inserts without deleting first
SaveSummaryAndTakeaways_insert_only(tbl, rid, summary_content, statements) ==
    IF statements = 2 THEN InsertSummary(tbl, rid, summary_content) ELSE tbl

\* save_selected_outcome_details: the delete, then the insert; `statements`
\* is how many of the two ran before one raised (2: none raised)
SaveSelectedOutcomeDetails(tbl, rid, outcomes_data, statements) ==
    IF statements = 2 THEN InsertSelectedOutcomes(DeleteOutcomes(tbl, rid), rid, outcomes_data)
    ELSE IF statements = 1 THEN DeleteOutcomes(tbl, rid)
    ELSE tbl

\* save_summary_and_takeaways: the delete, then the insert
SaveSummaryAndTakeaways(tbl, rid, summary_content, statements) ==
    IF statements = 2 THEN InsertSummary(DeleteSummary(tbl, rid), rid, summary_content)
    ELSE IF statements = 1 THEN DeleteSummary(tbl, rid)
    ELSE tbl

\* Where the handler stops, given the calls that raise: at the loads (load_ok
\* false, or the report is not the user's), at the empty-selection check, in
\* the generation block (the detail batch raises, or one of the writes does),
\* or nowhere ("": it runs to its answer).
OutcomesStage(reports, tbl, rid, user, load_ok, details_ok, written) ==
    IF ~load_ok \/ ~Owns(reports, rid, user) THEN "load"
    ELSE IF GetSelectedTitles(tbl, rid) = <<>> THEN "validate"
    ELSE IF ~details_ok \/ written < Len(P2Writes) THEN "handler"
    ELSE ""

\* The whole handler.  Outside the inner try: the three loads (an error
\* answers 500) and the empty-selection check (400); neither touches the
\* status.  Inside it: generation and the writes; any raise goes to the
\* handler that writes failed and answers 500.
GeneratePovOutcomes(s) ==
    /\ Free(s)
    /\ UNCHANGED <<pov_outcome_titles, grok_research, fan, calc, accounts>>
    /\ \E user \in Users, rid \in ReportIds, load_ok \in BOOLEAN :
        LET selected_titles == GetSelectedTitles(pov_outcome_titles, rid)
            early == OutcomesStage(pov_reports, pov_outcome_titles, rid, user,
                                   load_ok, TRUE, Len(P2Writes))
            r0 == [IdleReq EXCEPT !.kind = "p2", !.pc = "done", !.rid = rid,
                      !.from = pov_reports[rid].status,
                      !.overwrite = (RowsOf(pov_outcomes, rid) # <<>>)]
        IN
        IF early = "load"
        THEN /\ req' = [req EXCEPT ![s] = [r0 EXCEPT !.result = "500", !.stage = early]]
             /\ UNCHANGED <<pov_reports, pov_outcomes, pov_summary>>
        ELSE IF early = "validate"
        THEN /\ req' = [req EXCEPT ![s] = [r0 EXCEPT !.result = "400", !.stage = early]]
             /\ UNCHANGED <<pov_reports, pov_outcomes, pov_summary>>
        ELSE \E ctx_ok \in BOOLEAN, grok_ok \in BOOLEAN :
            \* the Grok research is read only by the fallback; a choice nothing
            \* reads is fixed
            /\ ((ctx_ok /\ ContextLoads(pov_reports, rid, user)) \/ ~HasGrok(rid, user))
                  => grok_ok
            /\ ~ContextLoads(pov_reports, rid, user) => ctx_ok
            /\ \E details_ok \in BOOLEAN, written \in 0..Len(P2Writes) :
                /\ ~details_ok => written = 0
                /\ \E gen \in Gens, summary_ok \in BOOLEAN, mark_ok \in BOOLEAN,
                      answered \in BOOLEAN :
                    LET grok == grok_ok /\ HasGrok(rid, user)
                        loaded == ctx_ok /\ ContextLoads(pov_reports, rid, user)
                        ctx == SelectedContext(pov_reports, rid, user, ctx_ok, grok)
                        stage == OutcomesStage(pov_reports, pov_outcome_titles, rid, user,
                                               load_ok, details_ok, written)
                        outcomes == SelectedDetails(ctx, selected_titles, gen)
                        summary == SelectedSummary(ctx, selected_titles, gen, summary_ok)
                        r1 == [r0 EXCEPT !.ctx = ctx, !.short = ~SaveReturns(answered),
                                  !.prompts = SelectedPrompts(ctx, selected_titles,
                                                              details_ok),
                                  !.ctx_load = IF loaded THEN "loaded"
                                               ELSE IF ctx_ok THEN "none" ELSE "error"]
                    IN
                    /\ written < 2 => gen = 1
                    /\ written < 4 => summary_ok
                    \* what the saves returned is a local nothing reads: it is
                    \* kept for the run that reaches its answer and fixed
                    \* otherwise, as is the fate of a write of failed that a
                    \* run without a raise never makes
                    /\ (~details_ok \/ written < Len(P2Writes)) => answered
                    /\ (details_ok /\ written = Len(P2Writes)) => mark_ok
                    /\ pov_outcomes' =
                          SaveSelectedOutcomeDetails(pov_outcomes, rid,
                              OutcomesData(selected_titles, outcomes),
                              Statements(written, 1))
                    /\ pov_summary' =
                          SaveSummaryAndTakeaways(pov_summary, rid, summary,
                                                  Statements(written, 3))
                    /\ pov_reports' =
                          IF stage = "" THEN UpdateReportStatus(pov_reports, rid, "completed")
                          ELSE IF mark_ok THEN UpdateReportStatus(pov_reports, rid, "failed")
                          ELSE pov_reports
                    /\ req' = [req EXCEPT ![s] =
                                  [r1 EXCEPT !.result = IF stage = "" THEN "ok" ELSE "500",
                                             !.stage = stage,
                                             !.marked = (stage # "" /\ mark_ok)]]

\* ------------------------- Full workflow: generate_pov_to_database
\* json.loads with no validation: a JSON object is iterated by its keys, a
\* list of any length is kept whole.
ParseTitlesFull(resp) ==
    IF resp.shape = "garbage" THEN [ok |-> FALSE, titles |-> <<>>]
    ELSE [ok |-> TRUE, titles |-> resp.items]

FullStart(s) ==
    /\ Free(s) /\ FreeIds # {}
    /\ \E user \in Creators, n \in 1..MaxOutcomes, ok \in BOOLEAN :
        LET r0 == [Begin(s, "full", user) EXCEPT !.num_outcomes = n] IN
        IF ok
        THEN /\ pov_reports' = CreatePovReport(pov_reports, NewId, user)
             /\ req' = [req EXCEPT ![s] =
                            [r0 EXCEPT !.rid = NewId, !.pc = "full_titles"]]
        ELSE /\ req' = [req EXCEPT ![s] = Finish(r0, "500")]
             /\ UNCHANGED pov_reports
    /\ UNCHANGED <<pov_outcome_titles, pov_outcomes, pov_summary, grok_research, fan, calc, accounts>>

\* Steps 1 and 2: gather, the title completion, json.loads, save_outcome_titles
FullTitles(s) ==
    /\ At(s, "full", "full_titles")
    /\ \E ok \in BOOLEAN, resp \in TitleResponses, gen \in Gens, answered \in BOOLEAN :
        LET parsed == ParseTitlesFull(resp)
            vendor_research == ProcessResearch("vendor", "full", TRUE)
            customer_research == ProcessResearch("customer", "full", TRUE)
        IN
        IF ok /\ parsed.ok
        THEN /\ pov_outcome_titles' =
                    SaveOutcomeTitles(pov_outcome_titles, req[s].rid, parsed.titles)
             /\ req' = [req EXCEPT ![s].pc = "full_details",
                                     ![s].shape = resp.shape,
                                     ![s].titles = parsed.titles,
                                     ![s].gen = gen,
                                     ![s].short = ~SaveReturns(answered),
                                     ![s].ctx = BuildContext(vendor_research,
                                                             customer_research)]
        ELSE /\ req' = [req EXCEPT ![s].pc = "full_fail"]
             /\ UNCHANGED pov_outcome_titles
    /\ UNCHANGED <<pov_reports, pov_outcomes, pov_summary, grok_research, fan, calc, accounts>>

\* Step 3: one detail prompt per title, llm_call, save_outcome_details
FullDetails(s) ==
    /\ At(s, "full", "full_details")
    /\ \E ok \in BOOLEAN, answered \in BOOLEAN :
        LET prompts == [i \in 1..Len(req[s].titles) |->
                            DetailPrompt(req[s].ctx, req[s].titles[i])]
            outcome_details == LlmCall(prompts, req[s].gen)
        IN
        IF ok
        THEN /\ pov_outcomes' = SaveOutcomeDetails(pov_outcomes, req[s].rid, outcome_details)
             /\ req' = [req EXCEPT ![s].pc = "full_summary",
                                     ![s].short = @ \/ ~SaveReturns(answered)]
        ELSE /\ req' = [req EXCEPT ![s].pc = "full_fail"]
             /\ UNCHANGED pov_outcomes
    /\ UNCHANGED <<pov_reports, pov_outcome_titles, pov_summary, grok_research, fan, calc, accounts>>

\* Step 4: the summary completion (a raise is fatal here), then the delete of
\* save_summary_and_takeaways
FullSummary(s) ==
    /\ At(s, "full", "full_summary")
    /\ \E ok \in BOOLEAN :
        IF ok
        THEN /\ pov_summary' = DeleteSummary(pov_summary, req[s].rid)
             /\ req' = [req EXCEPT ![s].pc = "full_insert_summary"]
        ELSE /\ req' = [req EXCEPT ![s].pc = "full_fail"]
             /\ UNCHANGED pov_summary
    /\ UNCHANGED <<pov_reports, pov_outcome_titles, pov_outcomes, grok_research, fan, calc, accounts>>

FullInsertSummary(s) ==
    /\ At(s, "full", "full_insert_summary")
    /\ \E ok \in BOOLEAN, answered \in BOOLEAN :
        IF ok
        THEN /\ pov_summary' =
                    InsertSummary(pov_summary, req[s].rid,
                        Completion(SummaryPrompt(req[s].ctx, req[s].num_outcomes),
                                   req[s].gen))
             /\ req' = [req EXCEPT ![s].pc = "full_status",
                                     ![s].short = @ \/ ~SaveReturns(answered)]
        ELSE /\ req' = [req EXCEPT ![s].pc = "full_fail"]
             /\ UNCHANGED pov_summary
    /\ UNCHANGED <<pov_reports, pov_outcome_titles, pov_outcomes, grok_research, fan, calc, accounts>>

FullStatus(s) ==
    /\ At(s, "full", "full_status")
    /\ \E ok \in BOOLEAN :
        IF ok
        THEN /\ pov_reports' = UpdateReportStatus(pov_reports, req[s].rid, "completed")
             /\ req' = [req EXCEPT ![s] = Finish(req[s], "ok")]
        ELSE /\ req' = [req EXCEPT ![s].pc = "full_fail"]
             /\ UNCHANGED pov_reports
    /\ UNCHANGED <<pov_outcome_titles, pov_outcomes, pov_summary, grok_research, fan, calc, accounts>>

FullFail(s) ==
    /\ At(s, "full", "full_fail")
    /\ \E ok \in BOOLEAN :
        /\ pov_reports' = IF ok THEN UpdateReportStatus(pov_reports, req[s].rid, "failed")
                          ELSE pov_reports
        /\ req' = [req EXCEPT ![s] = [Finish(req[s], "500") EXCEPT !.marked = ok]]
    /\ UNCHANGED <<pov_outcome_titles, pov_outcomes, pov_summary, grok_research, fan, calc, accounts>>

\* ------------------------------------------------ llm_call: the fan-out
\* One batch of llm_call: the list of titles handed to the detail step, one
\* prompt and one completion call per title, the calls finishing in any order.
NoResult == [kind |-> "none", title |-> "", n |-> 0, gen |-> 0, error |-> FALSE]

IdleFan == [titles |-> <<>>, prompts |-> <<>>, results |-> <<>>, finished |-> <<>>,
            failed |-> {}, returned |-> <<>>, pc |-> "idle"]

FanTitles == {"ta", "tb"}

FanContext == BuildContext(ProcessResearch("vendor", "phase1", TRUE),
                           ProcessResearch("customer", "phase1", TRUE))

Pending(f) == {i \in 1..Len(f.prompts) : \A j \in 1..Len(f.finished) : f.finished[j] # i}

\* the results in the order the calls finished (what asyncio.as_completed gives)
GatherResults_as_completed(results, finished) ==
    [i \in 1..Len(results) |-> results[finished[i]]]

\* what `await asyncio.gather(*tasks)` hands back: results[i] is the result of
\* tasks[i], whatever order the tasks finished in
GatherResults(results, finished) == [i \in 1..Len(results) |-> results[i]]

\* the tasks list is built, one call per instruction
FanStart ==
    /\ fan.pc = "idle"
    /\ \E K \in 0..MaxK : \E titles \in [1..K -> FanTitles] :
        fan' = [IdleFan EXCEPT !.titles = titles,
                   !.prompts = [i \in 1..K |-> DetailPrompt(FanContext, titles[i])],
                   !.results = [i \in 1..K |-> NoResult],
                   !.pc = "running"]
    /\ UNCHANGED <<store, req, calc, accounts>>

\* one completion call answers its own prompt
FanComplete ==
    /\ fan.pc = "running"
    /\ \E i \in Pending(fan), gen \in Gens :
        fan' = [fan EXCEPT !.results[i] = Completion(fan.prompts[i], gen),
                           !.finished = Append(@, i)]
    /\ UNCHANGED <<store, req, calc, accounts>>

\* one completion call raises: gather (no return_exceptions) raises it to
\* llm_call, which has no handler and returns nothing; `failed` records the
\* call that raised
FanRaise ==
    /\ fan.pc = "running"
    /\ \E i \in Pending(fan) :
        fan' = [fan EXCEPT !.failed = {i}, !.pc = "raised"]
    /\ UNCHANGED <<store, req, calc, accounts>>

\* every call has answered: responses_content is returned
FanReturn ==
    /\ fan.pc = "running"
    /\ Pending(fan) = {}
    /\ fan' = [fan EXCEPT !.returned = GatherResults(fan.results, fan.finished),
                           !.pc = "returned"]
    /\ UNCHANGED <<store, req, calc, accounts>>

\* the caller has consumed the outcome of the batch
FanDone ==
    /\ fan.pc \in {"returned", "raised"}
    /\ fan' = IdleFan
    /\ UNCHANGED <<store, req, calc, accounts>>

\* ------------------------------------------------------ the specification
Init ==
    /\ pov_reports = [r \in ReportIds |-> NoRow]
    /\ pov_outcome_titles = <<>>
    /\ pov_outcomes = <<>>
    /\ pov_summary = <<>>
    /\ grok_research = <<>>
    /\ req = [s \in Slots |-> IdleReq]
    /\ fan = IdleFan
    /\ calc = IdleCalc
    /\ accounts = NoAccounts

Step(s) ==
    \/ P1Start(s) \/ P1Titles(s) \/ P1SaveTitles(s) \/ P1SaveGrok(s)
    \/ P1SaveContext(s) \/ P1Status(s) \/ P1Fail(s)
    \/ SelUpdate(s)
    \/ GeneratePovOutcomes(s)
    \/ FullStart(s) \/ FullTitles(s) \/ FullDetails(s) \/ FullSummary(s)
    \/ FullInsertSummary(s) \/ FullStatus(s) \/ FullFail(s)
    \/ Return(s)

\* one workflow driver at a time
Next == \E s \in SeqSlots : Step(s)

Spec == Init /\ [][Next]_vars

NextFan == FanStart \/ FanComplete \/ FanRaise \/ FanReturn \/ FanDone

SpecFan == Init /\ [][NextFan]_vars

\* ------------------------------------------- the context gathering step
\* The gather of generate_pov_titles_only on its own: the sub-tasks, the
\* results list in task order, the classification of each result by its
\* index, and the sections of background_context.
\* longest list of documents on either side
MaxDocs == 1

\* process_research with what the crawl does (raises, an empty JSON object, a
\* JSON object with content) left uncaught: a raising crawl raises the task
ProcessResearchUrl_uncaught(url_given, research_type, crawl) ==
    IF ~url_given THEN [status |-> "skipped", data |-> <<>>]
    ELSE IF crawl = "raises" THEN [status |-> "raised", data |-> <<>>]
    ELSE [status |-> "success",
          data |-> IF crawl = "empty" THEN <<>> ELSE <<research_type, "analysis">>]

\* process_research: skipped without a URL; the crawl inside try/except
ProcessResearchUrl(url_given, research_type, crawl) ==
    IF ~url_given THEN [status |-> "skipped", data |-> <<>>]
    ELSE IF crawl = "raises" THEN [status |-> "error", data |-> <<>>]
    ELSE [status |-> "success",
          data |-> IF crawl = "empty" THEN <<>> ELSE <<research_type, "analysis">>]

\* process_file_content: skipped when the path does not exist; FileReader
\* returns a dict with the file's text or raises
ProcessFileContent(file) ==
    IF ~file.exists THEN [status |-> "skipped", data |-> <<>>]
    ELSE IF file.read = "raises" THEN [status |-> "error", data |-> <<>>]
    ELSE [status |-> "success", data |-> <<"document", file.name>>]

\* process_linkedin_profiles: skipped on blank text; the fetch returns the
\* profiles text (possibly empty) or raises
ProcessLinkedinProfiles(linkedin) ==
    IF linkedin.urls = "blank" THEN [status |-> "skipped", data |-> <<>>]
    ELSE IF linkedin.fetch = "raises" THEN [status |-> "error", data |-> <<>>]
    ELSE [status |-> "success",
          data |-> IF linkedin.fetch = "empty" THEN <<>> ELSE <<"profiles">>]

ResearchArgs ==
    {[url_given |-> g, crawl |-> c] :
        g \in BOOLEAN, c \in {"raises", "empty", "data"}}

FileArgs(side) ==
    {[exists |-> e, read |-> r, name |-> <<side, i>>] :
        e \in BOOLEAN, r \in {"raises", "data"}, i \in 1..MaxDocs}

\* the i-th path of a list names the i-th document of its side
FileLists(side) ==
    UNION {{files \in [1..n -> FileArgs(side)] :
                \A i \in 1..n : files[i].name = <<side, i>>} : n \in 0..MaxDocs}

\* linkedin_urls: None ("none": no task), whitespace ("blank"), or URLs
LinkedinArgs ==
    {[urls |-> u, fetch |-> f] :
        u \in {"none", "blank", "urls"}, f \in {"raises", "empty", "data"}}

\* the arguments as the program can be given them; a choice the sub-task
\* never reads is fixed
GatherArgs ==
    {a \in [vendor : ResearchArgs, customer : ResearchArgs,
            vendor_files : FileLists("vendor"), customer_files : FileLists("customer"),
            linkedin : LinkedinArgs] :
        /\ ~a.vendor.url_given => a.vendor.crawl = "data"
        /\ ~a.customer.url_given => a.customer.crawl = "data"
        /\ \A i \in 1..Len(a.vendor_files) :
              ~a.vendor_files[i].exists => a.vendor_files[i].read = "data"
        /\ \A i \in 1..Len(a.customer_files) :
              ~a.customer_files[i].exists => a.customer_files[i].read = "data"
        /\ a.linkedin.urls # "urls" => a.linkedin.fetch = "data"}

\* tasks, and results = await asyncio.gather(*tasks): one result per task,
\* in task order
GatherTasks(a) ==
    <<ProcessResearchUrl(a.vendor.url_given, "vendor", a.vendor.crawl),
      ProcessResearchUrl(a.customer.url_given, "customer", a.customer.crawl)>>
    \o [i \in 1..Len(a.vendor_files) |-> ProcessFileContent(a.vendor_files[i])]
    \o [i \in 1..Len(a.customer_files) |-> ProcessFileContent(a.customer_files[i])]
    \o (IF a.linkedin.urls # "none" THEN <<ProcessLinkedinProfiles(a.linkedin)>> ELSE <<>>)

\* gather without return_exceptions raises what a task raises
GatherRaises(results) == \E i \in 1..Len(results) : results[i].status = "raised"

\* the elif chain of the loop over enumerate(results), i counted from 0
ResultClass(i, a) ==
    LET vendor_files_start_idx == 2
        customer_files_start_idx == 2 + Len(a.vendor_files)
        len_tasks == Len(GatherTasks(a))
        linkedin_profiles_idx == IF a.linkedin.urls # "none" THEN len_tasks - 1 ELSE -1
    IN IF i = 0 THEN "vendor_research"
       ELSE IF i = 1 THEN "customer_research"
       ELSE IF vendor_files_start_idx <= i /\ i < customer_files_start_idx
            THEN "vendor_file"
       ELSE IF /\ customer_files_start_idx <= i
               /\ i < (IF linkedin_profiles_idx # -1 THEN linkedin_profiles_idx
                       ELSE len_tasks)
            THEN "customer_file"
       ELSE IF i = linkedin_profiles_idx THEN "linkedin"
       ELSE "none"

\* the data of the successful results of one class, in result order
Collected(results, a, class) ==
    LET picked == SelectSeq([i \in 1..Len(results) |-> i],
                            LAMBDA i : /\ results[i].status = "success"
                                       /\ ResultClass(i - 1, a) = class)
    IN [k \in 1..Len(picked) |-> results[picked[k]].data]

\* the five gathered sections of the background_context f-string
GatherContext(results, a) ==
    LET vendor_file_content == Collected(results, a, "vendor_file")
        customer_file_content == Collected(results, a, "customer_file")
        linkedin == Collected(results, a, "linkedin")
        linkedin_profiles_data == IF linkedin = <<>> THEN PyNone ELSE linkedin[Len(linkedin)]
    IN BuildContext(results[1], results[2])
       \o <<IF vendor_file_content # <<>> THEN JsonDumps(vendor_file_content)
                ELSE <<"No documents provided">>,
            IF customer_file_content # <<>> THEN JsonDumps(customer_file_content)
                ELSE <<"No documents provided">>,
            IF Truthy(linkedin_profiles_data) THEN linkedin_profiles_data
                ELSE <<"Not available or not requested">>>>

GatherCall ==
    /\ calc.pc = "idle"
    /\ \E a \in GatherArgs :
        calc' = [IdleCalc EXCEPT !.op = "gather", !.pc = "called", !.arg = a]
    /\ UNCHANGED <<store, req, fan, accounts>>

GatherRun ==
    /\ calc.op = "gather" /\ calc.pc = "called"
    /\ LET results == GatherTasks(calc.arg) IN
        calc' = IF GatherRaises(results) THEN [calc EXCEPT !.pc = "raised"]
                ELSE [calc EXCEPT !.pc = "returned",
                                  !.out = [results |-> results,
                                           context |-> GatherContext(results, calc.arg)]]
    /\ UNCHANGED <<store, req, fan, accounts>>

\* the caller has consumed the outcome of the call
CalcDone ==
    /\ calc.pc \in {"returned", "raised"}
    /\ calc' = IdleCalc
    /\ UNCHANGED <<store, req, fan, accounts>>

NextGather == GatherCall \/ GatherRun \/ CalcDone

SpecGather == Init /\ [][NextGather]_vars

\* ------------------------------------------- the title validation step
\* The parse of generate_pov_titles_only on its own, for any list of titles
\* up to one longer than the largest count asked for.
ParseResponses ==
    {[shape |-> sh, items |-> items] :
        sh \in {"garbage", "object", "list"},
        items \in UNION {[1..m -> Range(TitlePool)] : m \in 0..(MaxOutcomes + 1)}}

TitlesCall ==
    /\ calc.pc = "idle"
    /\ \E resp \in ParseResponses, num_outcomes \in 1..MaxOutcomes :
        calc' = [IdleCalc EXCEPT !.op = "titles", !.pc = "called",
                    !.arg = [resp |-> resp, num_outcomes |-> num_outcomes]]
    /\ UNCHANGED <<store, req, fan, accounts>>

\* a ValueError of the validation leaves as "Failed to generate outcome titles"
TitlesRun ==
    /\ calc.op = "titles" /\ calc.pc = "called"
    /\ LET parsed == ParseTitlesOnly(calc.arg.resp, calc.arg.num_outcomes) IN
        calc' = IF parsed.ok THEN [calc EXCEPT !.pc = "returned", !.out = parsed.titles]
                ELSE [calc EXCEPT !.pc = "raised"]
    /\ UNCHANGED <<store, req, fan, accounts>>

NextTitles == TitlesCall \/ TitlesRun \/ CalcDone

SpecTitles == Init /\ [][NextTitles]_vars

\* ------------------------------------------- the split of the summary text
\* save_summary_and_takeaways on its own.  A text is a sequence of tokens:
\* words ("x", "y"), a space ("s"), a newline ("n"), the summary header
\* "## **Summary & Strategic Integration of All <digits> Outcomes**" ("H")
\* and the marker "## **Key Takeaways & Next Steps**" ("M").
\* longest summary text, in tokens
MaxText == 4

Tokens == {"x", "y", "s", "n", "H", "M"}

Whitespace == {"s", "n"}

SummaryTexts == UNION {[1..n -> Tokens] : n \in 0..MaxText}

\* str.split(marker): the pieces between the occurrences of the marker
RECURSIVE SplitOn(_, _, _)
SplitOn(text, marker, piece) ==
    IF text = <<>> THEN <<piece>>
    ELSE IF Head(text) = marker THEN <<piece>> \o SplitOn(Tail(text), marker, <<>>)
    ELSE SplitOn(Tail(text), marker, Append(piece, Head(text)))

RECURSIVE DropSpace(_)
DropSpace(text) ==
    IF text # <<>> /\ Head(text) \in Whitespace THEN DropSpace(Tail(text)) ELSE text

\* the newline-ness of the last token that \s* takes after a header
RECURSIVE LastSpaceIsNewline(_, _)
LastSpaceIsNewline(text, last) ==
    IF text # <<>> /\ Head(text) \in Whitespace
    THEN LastSpaceIsNewline(Tail(text), Head(text) = "n")
    ELSE last

\* re.sub(r'^<header>\s*', '', part, flags=re.MULTILINE): every header that
\* stands at the start of the text or right after a newline goes, with the
\* whitespace that follows it
RECURSIVE RemoveSummaryHeader(_, _)
RemoveSummaryHeader(text, line_start) ==
    IF text = <<>> THEN <<>>
    ELSE IF Head(text) = "H" /\ line_start
         THEN RemoveSummaryHeader(DropSpace(Tail(text)),
                                  LastSpaceIsNewline(Tail(text), FALSE))
    ELSE <<Head(text)>> \o RemoveSummaryHeader(Tail(text), Head(text) = "n")

RECURSIVE DropSpaceAtEnd(_)
DropSpaceAtEnd(text) ==
    IF text # <<>> /\ text[Len(text)] \in Whitespace
    THEN DropSpaceAtEnd(SubSeq(text, 1, Len(text) - 1))
    ELSE text

\* a strip that leaves the text as it is
Strip_nothing(text) == text

\* str.strip()
Strip(text) == DropSpaceAtEnd(DropSpace(text))

\* summary_data, the row save_summary_and_takeaways inserts
SummaryData(summary_content) ==
    LET parts == SplitOn(summary_content, "M", <<>>)
        summary_part == Strip(RemoveSummaryHeader(parts[1], TRUE))
        takeaways_part == IF Len(parts) > 1 THEN Strip(parts[2]) ELSE <<>>
    IN [summary_content |-> summary_part, takeaways_content |-> takeaways_part]

SplitCall ==
    /\ calc.pc = "idle"
    /\ \E text \in SummaryTexts :
        calc' = [IdleCalc EXCEPT !.op = "split", !.pc = "called", !.arg = text]
    /\ UNCHANGED <<store, req, fan, accounts>>

SplitRun ==
    /\ calc.op = "split" /\ calc.pc = "called"
    /\ calc' = [calc EXCEPT !.pc = "returned", !.out = SummaryData(calc.arg)]
    /\ UNCHANGED <<store, req, fan, accounts>>

NextSplit == SplitCall \/ SplitRun \/ CalcDone

SpecSplit == Init /\ [][NextSplit]_vars

\* ------------------------------------------------ the store on its own
\* The two detail-saving operations called directly, any number of times, on
\* one report.
StoreContents == {Completion(DetailPrompt(FanContext, t), g) : t \in FanTitles, g \in Gens}

\* the detail texts handed to save_outcome_details
StoreOutcomes == UNION {[1..n -> StoreContents] : n \in 1..2}

\* the rows handed to save_selected_outcome_details: ascending title indices
StoreOutcomesData ==
    {<<[title_index |-> 0, title |-> c.title, content |-> c]>> : c \in StoreContents}
    \cup {<<[title_index |-> 1, title |-> c.title, content |-> c]>> : c \in StoreContents}
    \cup {<<[title_index |-> 0, title |-> c.title, content |-> c],
            [title_index |-> 1, title |-> d.title, content |-> d]>> :
              c \in StoreContents, d \in StoreContents}

InitStore ==
    /\ pov_reports = CreatePovReport([r \in ReportIds |-> NoRow], 1, "u1")
    /\ pov_outcome_titles = <<>>
    /\ pov_outcomes = <<>>
    /\ pov_summary = <<>>
    /\ grok_research = <<>>
    /\ req = [s \in Slots |-> IdleReq]
    /\ fan = IdleFan
    /\ calc = IdleCalc
    /\ accounts = NoAccounts

CallSaveOutcomeDetails ==
    /\ \E rid \in ReportIds, outcomes \in StoreOutcomes :
        /\ Len(pov_outcomes) + Len(outcomes) <= MaxRows
        /\ pov_outcomes' = SaveOutcomeDetails(pov_outcomes, rid, outcomes)
        /\ req' = [req EXCEPT ![1] = [IdleReq EXCEPT !.kind = "save_outcome_details",
                                                     !.rid = rid, !.pc = "done",
                                                     !.overwrite = (pov_outcomes # <<>>)]]
    /\ UNCHANGED <<pov_reports, pov_outcome_titles, pov_summary, grok_research, fan, calc, accounts>>

CallSaveSelectedOutcomeDetails ==
    /\ \E rid \in ReportIds, outcomes_data \in StoreOutcomesData :
        /\ pov_outcomes' = SaveSelectedOutcomeDetails(pov_outcomes, rid, outcomes_data, 2)
        /\ req' = [req EXCEPT ![1] = [IdleReq EXCEPT !.kind = "save_selected_outcome_details",
                                                     !.rid = rid, !.pc = "done",
                                                     !.overwrite = (pov_outcomes # <<>>)]]
    /\ UNCHANGED <<pov_reports, pov_outcome_titles, pov_summary, grok_research, fan, calc, accounts>>

NextStore == CallSaveOutcomeDetails \/ CallSaveSelectedOutcomeDetails

SpecStore == InitStore /\ [][NextStore]_vars

\* ------------------------------------------------ handlers side by side
\* Handlers of several requests for one report, in progress at once.  The
\* code takes no lock and opens no transaction: every supabase call is one
\* statement at the store, and between two statements of one handler the
\* statements of another may run (always across an awaited generation; between
\* the synchronous statements of one call when the requests are served by
\* different processes that share the store).  A step is one statement (or
\* the awaited generation); req[s] is the position and the locals of the
\* handler in s.
\* The store at the start is the one a Phase 1 run and a selection leave.
StoredContext ==
    BuildContext(ProcessResearch("vendor", "phase1", TRUE),
                 ProcessResearch("customer", "phase1", TRUE))

\* the title_index values of the report's title rows, all or the selected
TitleIndices(tbl, rid) ==
    {tbl[i].title_index : i \in {j \in 1..Len(tbl) : tbl[j].report_id = rid}}

SelectedIndices(tbl, rid) ==
    {tbl[i].title_index :
        i \in {j \in 1..Len(tbl) : tbl[j].report_id = rid /\ tbl[j].selected}}

InitWorkers ==
    /\ pov_reports =
          SaveContextData(
              UpdateReportStatus(CreatePovReport([r \in ReportIds |-> NoRow], 1, "u1"),
                                 1, "titles_generated"),
              1, <<StoredContext>>)
    /\ \E selected \in SUBSET (0..MaxOutcomes - 1) :
          pov_outcome_titles =
              UpdateSelectedTitles(SaveOutcomeTitles(<<>>, 1, Take(TitlePool, MaxOutcomes)),
                                   1, selected)
    /\ pov_outcomes = <<>>
    /\ pov_summary = <<>>
    /\ grok_research = <<>>
    /\ req = [s \in Slots |-> IdleReq]
    /\ fan = IdleFan
    /\ calc = IdleCalc
    /\ accounts = NoAccounts

\* the handler in s leaves with an error before or after its inner try
WorkerLeaves(s, result) ==
    [IdleReq EXCEPT !.kind = req[s].kind, !.pc = "done", !.rid = req[s].rid,
                    !.user = req[s].user, !.gen = req[s].gen,
                    !.titles = req[s].titles, !.result = result]

\* generate_pov_outcomes up to the inner try: get_report_titles_only raises
\* for a report that is not the user's (500), get_selected_titles reads the
\* selected rows, none selected answers 400
P2Load(s) ==
    /\ Free(s)
    /\ \E user \in Users, rid \in ReportIds :
        LET selected_titles == GetSelectedTitles(pov_outcome_titles, rid)
            r0 == [IdleReq EXCEPT !.kind = "p2run", !.rid = rid, !.user = user,
                                  !.gen = s, !.titles = selected_titles]
        IN
        req' = [req EXCEPT ![s] =
                   IF ~Owns(pov_reports, rid, user)
                   THEN [r0 EXCEPT !.pc = "done", !.result = "500", !.titles = <<>>]
                   ELSE IF selected_titles = <<>>
                   THEN [r0 EXCEPT !.pc = "done", !.result = "400"]
                   ELSE [r0 EXCEPT !.pc = "generate"]]
    /\ UNCHANGED <<store, fan, calc, accounts>>

\* the awaited generate_selected_outcomes_only: the context (stored, or
\* gathered again when the load fails), the completions; a raise goes to the
\* handler that writes failed and answers 500
P2Generate(s) ==
    /\ At(s, "p2run", "generate")
    /\ \E ok \in BOOLEAN :
        IF ok
        THEN /\ req' = [req EXCEPT ![s].pc = "delete_outcomes",
                                   ![s].ctx = SelectedContext(pov_reports, req[s].rid,
                                                  req[s].user, TRUE,
                                                  HasGrok(req[s].rid, req[s].user))]
             /\ UNCHANGED pov_reports
        ELSE /\ pov_reports' = UpdateReportStatus(pov_reports, req[s].rid, "failed")
             /\ req' = [req EXCEPT ![s] = WorkerLeaves(s, "500")]
    /\ UNCHANGED <<pov_outcome_titles, pov_outcomes, pov_summary, grok_research, fan, calc, accounts>>

\* save_selected_outcome_details, first statement
P2DeleteOutcomes(s) ==
    /\ At(s, "p2run", "delete_outcomes")
    /\ pov_outcomes' = DeleteOutcomes(pov_outcomes, req[s].rid)
    /\ req' = [req EXCEPT ![s].pc = "insert_outcomes"]
    /\ UNCHANGED <<pov_reports, pov_outcome_titles, pov_summary, grok_research, fan, calc, accounts>>

\* save_selected_outcome_details, second statement
P2InsertOutcomes(s) ==
    /\ At(s, "p2run", "insert_outcomes")
    /\ pov_outcomes' =
          InsertSelectedOutcomes(pov_outcomes, req[s].rid,
              OutcomesData(req[s].titles,
                           SelectedDetails(req[s].ctx, req[s].titles, req[s].gen)))
    /\ req' = [req EXCEPT ![s].pc = "delete_summary"]
    /\ UNCHANGED <<pov_reports, pov_outcome_titles, pov_summary, grok_research, fan, calc, accounts>>

\* save_summary_and_takeaways, first statement
P2DeleteSummary(s) ==
    /\ At(s, "p2run", "delete_summary")
    /\ pov_summary' = DeleteSummary(pov_summary, req[s].rid)
    /\ req' = [req EXCEPT ![s].pc = "insert_summary"]
    /\ UNCHANGED <<pov_reports, pov_outcome_titles, pov_outcomes, grok_research, fan, calc, accounts>>

\* save_summary_and_takeaways, second statement
P2InsertSummary(s) ==
    /\ At(s, "p2run", "insert_summary")
    /\ pov_summary' =
          InsertSummary(pov_summary, req[s].rid,
                        SelectedSummary(req[s].ctx, req[s].titles, req[s].gen, TRUE))
    /\ req' = [req EXCEPT ![s].pc = "status"]
    /\ UNCHANGED <<pov_reports, pov_outcome_titles, pov_outcomes, grok_research, fan, calc, accounts>>

\* update_report_status(completed) and the answer
P2Status(s) ==
    /\ At(s, "p2run", "status")
    /\ pov_reports' = UpdateReportStatus(pov_reports, req[s].rid, "completed")
    /\ req' = [req EXCEPT ![s] = WorkerLeaves(s, "ok")]
    /\ UNCHANGED <<pov_outcome_titles, pov_outcomes, pov_summary, grok_research, fan, calc, accounts>>

\* a statement of the inner try raises: the handler writes failed, answers 500
P2Raise(s) ==
    /\ req[s].kind = "p2run"
    /\ req[s].pc \in {"delete_outcomes", "insert_outcomes", "delete_summary",
                      "insert_summary", "status"}
    /\ pov_reports' = UpdateReportStatus(pov_reports, req[s].rid, "failed")
    /\ req' = [req EXCEPT ![s] = WorkerLeaves(s, "500")]
    /\ UNCHANGED <<pov_outcome_titles, pov_outcomes, pov_summary, grok_research, fan, calc, accounts>>

\* update_selected_titles, the ownership read.  `before` is the selection as
\* it stands when the call begins; the handler does not read it.
SelCheck(s) ==
    /\ Free(s)
    /\ \E user \in Users, rid \in ReportIds, selected_indices \in SUBSET (0..MaxOutcomes) :
        LET r0 == [IdleReq EXCEPT !.kind = "selrun", !.rid = rid, !.user = user,
                                  !.indices = selected_indices]
        IN
        req' = [req EXCEPT ![s] =
                   IF Owns(pov_reports, rid, user)
                   THEN [r0 EXCEPT !.pc = "reset", !.todo = selected_indices,
                                   !.before = SelectedIndices(pov_outcome_titles, rid)]
                   ELSE [r0 EXCEPT !.pc = "done", !.result = "500", !.indices = {}]]
    /\ UNCHANGED <<store, fan, calc, accounts>>

\* update({"selected": False}).eq("report_id", report_id)
SelReset(s) ==
    /\ At(s, "selrun", "reset")
    /\ pov_outcome_titles' = UpdateSelectedTitles(pov_outcome_titles, req[s].rid, {})
    /\ req' = [req EXCEPT ![s] =
                  IF req[s].todo = {}
                  THEN [req[s] EXCEPT !.pc = "done", !.result = "ok"]
                  ELSE [req[s] EXCEPT !.pc = "set"]]
    /\ UNCHANGED <<pov_reports, pov_outcomes, pov_summary, grok_research, fan, calc, accounts>>

\* update({"selected": True}).eq("report_id", report_id).eq("title_index", index)
SetSelectedTitle(tbl, rid, index) ==
    [i \in 1..Len(tbl) |->
        IF tbl[i].report_id = rid /\ tbl[i].title_index = index
        THEN [tbl[i] EXCEPT !.selected = TRUE]
        ELSE tbl[i]]

\* one turn of the loop: the update of one listed index
SelSet(s) ==
    /\ At(s, "selrun", "set")
    /\ \E index \in req[s].todo :
        /\ pov_outcome_titles' =
              SetSelectedTitle(pov_outcome_titles, req[s].rid, index)
        /\ req' = [req EXCEPT ![s] =
                      IF req[s].todo = {index}
                      THEN [req[s] EXCEPT !.pc = "done", !.result = "ok", !.todo = {}]
                      ELSE [req[s] EXCEPT !.todo = req[s].todo \ {index}]]
    /\ UNCHANGED <<pov_reports, pov_outcomes, pov_summary, grok_research, fan, calc, accounts>>

\* a statement of update_selected_titles raises: the endpoint answers 500
SelRaise(s) ==
    /\ req[s].kind = "selrun" /\ req[s].pc \in {"reset", "set"}
    /\ req' = [req EXCEPT ![s] = [req[s] EXCEPT !.pc = "done", !.result = "500"]]
    /\ UNCHANGED <<store, fan, calc, accounts>>

\* delete_report, the ownership read: 404 when the report is not the user's
DeleteCheck(s) ==
    /\ Free(s)
    /\ \E user \in Users, rid \in ReportIds :
        LET r0 == [IdleReq EXCEPT !.kind = "delrun", !.rid = rid, !.user = user] IN
        req' = [req EXCEPT ![s] =
                   IF Owns(pov_reports, rid, user)
                   THEN [r0 EXCEPT !.pc = "delete_outcomes"]
                   ELSE [r0 EXCEPT !.pc = "done", !.result = "404"]]
    /\ UNCHANGED <<store, fan, calc, accounts>>

\* delete_report: the children, then the report row
DeleteReportOutcomes(s) ==
    /\ At(s, "delrun", "delete_outcomes")
    /\ pov_outcomes' = RowsNotOf(pov_outcomes, req[s].rid)
    /\ req' = [req EXCEPT ![s].pc = "delete_titles"]
    /\ UNCHANGED <<pov_reports, pov_outcome_titles, pov_summary, grok_research, fan, calc, accounts>>

DeleteReportTitles(s) ==
    /\ At(s, "delrun", "delete_titles")
    /\ pov_outcome_titles' = RowsNotOf(pov_outcome_titles, req[s].rid)
    /\ req' = [req EXCEPT ![s].pc = "delete_summary"]
    /\ UNCHANGED <<pov_reports, pov_outcomes, pov_summary, grok_research, fan, calc, accounts>>

DeleteReportSummary(s) ==
    /\ At(s, "delrun", "delete_summary")
    /\ pov_summary' = RowsNotOf(pov_summary, req[s].rid)
    /\ req' = [req EXCEPT ![s].pc = "delete_report"]
    /\ UNCHANGED <<pov_reports, pov_outcome_titles, pov_outcomes, grok_research, fan, calc, accounts>>

\* delete().eq("id", report_id).eq("user_id", user_id) and the answer
DeleteReportRow(s) ==
    /\ At(s, "delrun", "delete_report")
    /\ pov_reports' = IF Owns(pov_reports, req[s].rid, req[s].user)
                      THEN [pov_reports EXCEPT ![req[s].rid] = NoRow]
                      ELSE pov_reports
    /\ req' = [req EXCEPT ![s] = [req[s] EXCEPT !.pc = "done", !.result = "ok"]]
    /\ UNCHANGED <<pov_outcome_titles, pov_outcomes, pov_summary, grok_research, fan, calc, accounts>>

\* a statement of delete_report raises: the endpoint answers 500
DeleteRaise(s) ==
    /\ req[s].kind = "delrun"
    /\ req[s].pc \in {"delete_outcomes", "delete_titles", "delete_summary", "delete_report"}
    /\ req' = [req EXCEPT ![s] = [req[s] EXCEPT !.pc = "done", !.result = "500"]]
    /\ UNCHANGED <<store, fan, calc, accounts>>

P2Step(s) ==
    \/ P2Load(s) \/ P2Generate(s) \/ P2DeleteOutcomes(s) \/ P2InsertOutcomes(s)
    \/ P2DeleteSummary(s) \/ P2InsertSummary(s) \/ P2Status(s) \/ P2Raise(s)
    \/ Return(s)

SelStep(s) ==
    \/ SelCheck(s) \/ SelReset(s) \/ SelSet(s) \/ SelRaise(s) \/ Return(s)

DeleteStep(s) ==
    \/ DeleteCheck(s) \/ DeleteReportOutcomes(s) \/ DeleteReportTitles(s)
    \/ DeleteReportSummary(s) \/ DeleteReportRow(s) \/ DeleteRaise(s) \/ Return(s)

\* two Phase 2 requests for the report
NextOverlap == \E s \in Slots : P2Step(s)

SpecOverlap == InitWorkers /\ [][NextOverlap]_vars

\* a Phase 2 request and a selection request
NextSelecting == P2Step(1) \/ SelStep(2)

SpecSelecting == InitWorkers /\ [][NextSelecting]_vars

\* a Phase 2 request and a delete request
NextDeleting == P2Step(1) \/ DeleteStep(2)

SpecDeleting == InitWorkers /\ [][NextDeleting]_vars

\* ------------------------------------------------ the quota bookkeeping
\* The quota check before a report is created and the charge after it is
\* made, for requests of one user in progress at once.  The workflows above
\* are those of a user whose checks pass; nothing in them reads the counters.
\* Here a report is its status, generation is a step that succeeds or raises,
\* and the account of a user is the quota, the counter the two stored
\* procedures read and add to, and the user's reports.  `charged` of a report
\* counts the increment_user_report_count calls of the run that made it.
MaxQuota == 1

MaxReports == 2

\* check_user_report_quota: the rpc's answer, False when the rpc raises
CheckUserReportQuota(acc, user, rpc_ok) ==
    rpc_ok /\ acc[user].used < acc[user].quota

\* increment_user_report_count: the rpc adds one; its error is absorbed
IncrementUserReportCount(acc, user, rpc_ok) ==
    IF rpc_ok THEN [acc EXCEPT ![user].used = @ + 1] ELSE acc

\* the call of increment_user_report_count by the run that made report rid
Charge(acc, user, rid, rpc_ok) ==
    [IncrementUserReportCount(acc, user, rpc_ok)
        EXCEPT ![user].reports[rid].charged = @ + 1]

SetStatus(acc, user, rid, status) ==
    [acc EXCEPT ![user].reports[rid].status = status]

InitQuota ==
    /\ pov_reports = [r \in ReportIds |-> NoRow]
    /\ pov_outcome_titles = <<>>
    /\ pov_outcomes = <<>>
    /\ pov_summary = <<>>
    /\ grok_research = <<>>
    /\ req = [s \in Slots |-> IdleReq]
    /\ fan = IdleFan
    /\ calc = IdleCalc
    /\ \E quota \in 0..MaxQuota :
          accounts = [NoAccounts EXCEPT !["u1"].quota = quota]

\* generate_pov_titles and generate_pov_to_database, the quota check.  The
\* refusal is an HTTPException(429): generate_pov_to_database re-raises it,
\* generate_pov_titles has only `except Exception`, which answers 500.
QuotaCheck(s) ==
    /\ Free(s)
    /\ \E kind \in {"titles", "database"}, user \in Creators, rpc_ok \in BOOLEAN :
        /\ Len(accounts[user].reports) < MaxReports
        /\ req' = [req EXCEPT ![s] =
                      LET r0 == [IdleReq EXCEPT !.kind = kind, !.user = user] IN
                      IF CheckUserReportQuota(accounts, user, rpc_ok)
                      THEN [r0 EXCEPT !.pc = "create"]
                      ELSE [r0 EXCEPT !.pc = "done", !.stage = "quota",
                                      !.result = IF kind = "database" THEN "429"
                                                 ELSE "500"]]
    /\ UNCHANGED <<store, fan, calc, accounts>>

\* create_pov_report: the row with status processing; a raise answers 500
QuotaCreate(s) ==
    /\ req[s].kind \in {"titles", "database"} /\ req[s].pc = "create"
    /\ \E ok \in BOOLEAN :
        IF ok
        THEN /\ accounts' = [accounts EXCEPT ![req[s].user].reports =
                                Append(@, [status |-> "processing", charged |-> 0])]
             /\ req' = [req EXCEPT ![s].pc = "generate",
                                   ![s].rid = Len(accounts[req[s].user].reports) + 1]
        ELSE /\ req' = [req EXCEPT ![s] =
                           [req[s] EXCEPT !.pc = "done", !.result = "500"]]
             /\ UNCHANGED accounts
    /\ UNCHANGED <<store, fan, calc>>

\* the generation and the saves of the inner try; a raise writes failed
QuotaGenerate(s) ==
    /\ req[s].kind \in {"titles", "database"} /\ req[s].pc = "generate"
    /\ \E ok \in BOOLEAN :
        IF ok
        THEN /\ req' = [req EXCEPT ![s].pc = "status"]
             /\ UNCHANGED accounts
        ELSE /\ accounts' = SetStatus(accounts, req[s].user, req[s].rid, "failed")
             /\ req' = [req EXCEPT ![s] =
                           [req[s] EXCEPT !.pc = "done", !.stage = "failed",
                                          !.result = "500"]]
    /\ UNCHANGED <<store, fan, calc>>

\* update_report_status(titles_generated) or (completed); a raise writes failed
QuotaStatus(s) ==
    /\ req[s].kind \in {"titles", "database"} /\ req[s].pc = "status"
    /\ \E ok \in BOOLEAN :
        LET status == IF ~ok THEN "failed"
                      ELSE IF req[s].kind = "titles" THEN "titles_generated"
                      ELSE "completed"
        IN
        /\ accounts' = SetStatus(accounts, req[s].user, req[s].rid, status)
        /\ req' = [req EXCEPT ![s] =
                      IF ok THEN [req[s] EXCEPT !.pc = "increment", !.stage = status]
                      ELSE [req[s] EXCEPT !.pc = "done", !.stage = status,
                                          !.result = "500"]]
    /\ UNCHANGED <<store, fan, calc>>

\* a run that charges the user and then writes its status
QuotaIncrement_first(s) ==
    /\ req[s].kind \in {"titles", "database"} /\ req[s].pc = "generate"
    /\ \E rpc_ok \in BOOLEAN :
        /\ accounts' = Charge(accounts, req[s].user, req[s].rid, rpc_ok)
        /\ req' = [req EXCEPT ![s].pc = "status"]
    /\ UNCHANGED <<store, fan, calc>>

\* increment_user_report_count after the status write, and the answer
QuotaIncrement(s) ==
    /\ req[s].kind \in {"titles", "database"} /\ req[s].pc = "increment"
    /\ \E rpc_ok \in BOOLEAN :
        /\ accounts' = Charge(accounts, req[s].user, req[s].rid, rpc_ok)
        /\ req' = [req EXCEPT ![s] = [req[s] EXCEPT !.pc = "done", !.result = "ok"]]
    /\ UNCHANGED <<store, fan, calc>>

\* generate_pov_outcomes on a report whose titles are saved: the loads; 400
\* with no title selected
QuotaOutcomesLoad(s) ==
    /\ Free(s)
    /\ \E user \in Creators :
        \E rid \in 1..Len(accounts[user].reports), selected \in BOOLEAN :
            /\ accounts[user].reports[rid].status # "processing"
            /\ req' = [req EXCEPT ![s] =
                          LET r0 == [IdleReq EXCEPT !.kind = "outcomes", !.user = user,
                                                    !.rid = rid]
                          IN
                          IF selected THEN [r0 EXCEPT !.pc = "generate"]
                          ELSE [r0 EXCEPT !.pc = "done", !.result = "400"]]
    /\ UNCHANGED <<store, fan, calc, accounts>>

\* generate_pov_outcomes, the inner try: completed, or failed on a raise
QuotaOutcomesRun(s) ==
    /\ At(s, "outcomes", "generate")
    /\ \E ok \in BOOLEAN :
        LET status == IF ok THEN "completed" ELSE "failed" IN
        /\ accounts' = SetStatus(accounts, req[s].user, req[s].rid, status)
        /\ req' = [req EXCEPT ![s] =
                      [req[s] EXCEPT !.pc = "done", !.stage = status,
                                     !.result = IF ok THEN "ok" ELSE "500"]]
    /\ UNCHANGED <<store, fan, calc>>

QuotaStep(s) ==
    \/ QuotaCheck(s) \/ QuotaCreate(s) \/ QuotaGenerate(s) \/ QuotaStatus(s)
    \/ QuotaIncrement(s) \/ QuotaOutcomesLoad(s) \/ QuotaOutcomesRun(s)
    \/ Return(s)

NextQuota == \E s \in Slots : QuotaStep(s)

SpecQuota == InitQuota /\ [][NextQuota]_vars

\* ------------------------------------------------ the LinkedIn profile fetch
\* fetch_profiles_in_threads on its own: one thread per extracted URL, each
\* with a dictionary of its own, then the loop that joins thread k and reads
\* its dictionary, then the formatting of all results.  calc.arg is what the
\* fetch of each URL does; calc.out holds the dictionaries and the results.
MaxUrls == 3

\* the request returns a profile, fails with a RequestException (returned as
\* an error dict), or raises something else (caught by start_loop)
FetchOutcomes == {"profile", "error", "raises"}

\* what the thread of a URL stores under the URL
FetchSocialMediaProfile(url, outcome) ==
    IF outcome = "profile" THEN <<"profile", url>> ELSE <<"error", outcome>>

\* format_profile reads profile['experiences'] first: a KeyError on an error dict
FormatProfile(result) ==
    IF result[1] = "profile" THEN [ok |-> TRUE, text |-> <<"formatted", result[2]>>]
    ELSE [ok |-> FALSE, text |-> <<>>]

\* the list comprehension over results, joined in order; one KeyError ends it
FormatResults(results) ==
    IF \A i \in 1..Len(results) : FormatProfile(results[i]).ok
    THEN [ok |-> TRUE, text |-> [i \in 1..Len(results) |-> FormatProfile(results[i]).text]]
    ELSE [ok |-> FALSE, text |-> <<>>]

\* the first loop: every thread is started
ProfilesCall ==
    /\ calc.pc = "idle"
    /\ \E n \in 0..MaxUrls :
        \E fetch \in [1..n -> FetchOutcomes] :
            calc' = [IdleCalc EXCEPT !.op = "profiles", !.pc = "threads", !.arg = fetch,
                        !.out = [shared_dict |-> [i \in 1..n |-> <<>>],
                                 results |-> <<>>, text |-> <<>>]]
    /\ UNCHANGED <<store, req, fan, accounts>>

\* start_loop of one thread: the result, or the error dict, under its own key
ThreadFinishes ==
    /\ calc.op = "profiles" /\ calc.pc = "threads"
    /\ \E i \in 1..Len(calc.arg) :
        /\ calc.out.shared_dict[i] = <<>>
        /\ calc' = [calc EXCEPT !.out.shared_dict[i] =
                                    FetchSocialMediaProfile(i, calc.arg[i])]
    /\ UNCHANGED <<store, req, fan, accounts>>

\* one turn of the second loop: thread.join(), results.append(shared_dict[url])
JoinThread ==
    /\ calc.op = "profiles" /\ calc.pc = "threads"
    /\ Len(calc.out.results) < Len(calc.arg)
    /\ LET k == Len(calc.out.results) + 1 IN
        /\ calc.out.shared_dict[k] # <<>>
        /\ calc' = [calc EXCEPT !.out.results = Append(@, calc.out.shared_dict[k])]
    /\ UNCHANGED <<store, req, fan, accounts>>

\* the formatting and the join of the texts; process_linkedin_profiles turns
\* a raise into an error status
FormatProfiles ==
    /\ calc.op = "profiles" /\ calc.pc = "threads"
    /\ Len(calc.out.results) = Len(calc.arg)
    /\ LET formatted == FormatResults(calc.out.results) IN
        calc' = IF formatted.ok
                THEN [calc EXCEPT !.pc = "returned", !.out.text = formatted.text]
                ELSE [calc EXCEPT !.pc = "raised"]
    /\ UNCHANGED <<store, req, fan, accounts>>

NextProfiles == ProfilesCall \/ ThreadFinishes \/ JoinThread \/ FormatProfiles \/ CalcDone

SpecProfiles == Init /\ [][NextProfiles]_vars

\* ------------------------------------------------- claims over the workflows
\* the request that took the step, as it stands after the step
Ran(kind) == \E s \in SeqSlots : req[s].pc = "idle" /\ req'[s].kind = kind /\ req'[s].pc = "done"

Done(kind) == \E s \in SeqSlots : req[s].kind = kind /\ req[s].pc = "done"

Result == req[1].result

\* ------------------------------------------------------------------ C1
\* C1: whenever llm_call returns for a list of K titles, the returned list
\* has length K and its i-th element is the completion of the prompt built
\* from the i-th title, whatever order the calls finished in.
C1_PositionalIntegrity ==
    fan.pc = "returned" =>
        /\ Len(fan.returned) = Len(fan.titles)
        /\ \A i \in 1..Len(fan.titles) :
              /\ fan.returned[i] # NoResult
              /\ fan.returned[i] =
                    Completion(DetailPrompt(FanContext, fan.titles[i]), fan.returned[i].gen)

\* a batch of distinct titles has returned whose calls finished out of order
C1_Witness ==
    /\ fan.pc = "returned"
    /\ Len(fan.titles) >= 2
    /\ fan.titles[1] # fan.titles[2]
    /\ fan.finished[1] # 1

\* ------------------------------------------------------------------ C2
\* C2 as stated: the status completed is only ever entered from
\* titles_generated.
C2_OnlyFromTitlesGenerated ==
    [][\A rid \in ReportIds :
          (pov_reports'[rid].status = "completed" /\ pov_reports[rid].status # "completed")
              => pov_reports[rid].status = "titles_generated"]_vars

\* C2, amended: the status completed is entered only by the last store write
\* of generate_pov_to_database, from processing, or by a generate_pov_outcomes
\* run that read at least one selected title and answered without an error,
\* from whatever status the report had; generate_pov_titles never writes it.
C2_CompletedEntry ==
    [][\A rid \in ReportIds :
          (pov_reports'[rid].status = "completed" /\ pov_reports[rid].status # "completed")
              => \/ /\ req[1].kind = "full" /\ req[1].pc = "full_status"
                    /\ req[1].rid = rid
                    /\ pov_reports[rid].status = "processing"
                 \/ /\ Ran("p2") /\ req'[1].result = "ok"
                    /\ GetSelectedTitles(pov_outcome_titles, rid) # <<>>]_vars

\* a report completed by generate_pov_to_database: it never was titles_generated
C2_Witness ==
    /\ Done("full") /\ Result = "ok"
    /\ pov_reports[1].status = "completed"

\* ------------------------------------------------------------------ C3
\* C3 as stated: once the status is completed or failed, no operation changes
\* it to a different value.
C3_Terminal ==
    [][\A rid \in ReportIds :
          pov_reports[rid].status \in {"completed", "failed"}
              => pov_reports'[rid].status = pov_reports[rid].status]_vars

\* C3, amended: once the status is completed or failed, the only operation
\* that changes it is a generate_pov_outcomes run that got past its loads and
\* its empty-selection check: to completed when the run answers without an
\* error, to failed when it fails and its failed write is accepted.  Selection
\* updates and runs rejected at the loads or at the empty selection leave it.
C3_TerminalUnlessRerun ==
    [][\A rid \in ReportIds :
          (/\ pov_reports[rid].status \in {"completed", "failed"}
           /\ pov_reports'[rid].status # pov_reports[rid].status)
              => /\ Ran("p2")
                 /\ req'[1].stage \notin {"load", "validate"}
                 /\ \/ req'[1].result = "ok" /\ pov_reports'[rid].status = "completed"
                    \/ /\ req'[1].result = "500" /\ req'[1].marked
                       /\ pov_reports'[rid].status = "failed"]_vars

\* a re-run over existing details has failed and left the report failed
C3_Witness ==
    /\ Done("p2") /\ Result = "500" /\ req[1].marked /\ req[1].overwrite
    /\ pov_reports[1].status = "failed"
    /\ RowsOf(pov_outcomes, 1) # <<>>

\* ------------------------------------------------------------------ C4
\* C4 as stated: a generate_pov_outcomes invocation on an existing report that
\* answers with an error leaves the report with status failed.
C4_FailureLeavesFailed ==
    (Done("p2") /\ Result # "ok" /\ pov_reports[1].exists)
        => pov_reports[1].status = "failed"

\* C4, amended: a generate_pov_outcomes invocation that answers with an error
\* never writes completed.  An error of the loads and an empty selection (400)
\* leave the status as it was; an error inside the generation block writes
\* failed when that write is accepted and leaves the status as it was when the
\* write raises too.
C4_FailureStatus ==
    [][(Ran("p2") /\ req'[1].result # "ok")
          => /\ (req'[1].marked => req'[1].stage = "handler")
             /\ (req'[1].stage \in {"load", "validate"} => ~req'[1].marked)
             /\ \A rid \in ReportIds :
                   pov_reports'[rid].status =
                       IF req'[1].marked /\ pov_reports[rid].exists THEN "failed"
                       ELSE pov_reports[rid].status]_vars

\* an empty selection was refused with 400 and the report is still completed
C4_Witness ==
    /\ Done("p2") /\ Result = "400"
    /\ pov_reports[1].status = "completed"

IsRunDetails(rows, selected_titles) ==
    /\ Len(rows) = Len(selected_titles)
    /\ \A i \in 1..Len(rows) :
          /\ rows[i].outcome_index = selected_titles[i].title_index
          /\ rows[i].title = selected_titles[i].title
          /\ rows[i].content.kind = "detail"
          /\ rows[i].content.title = selected_titles[i].title

IsRunSummary(rows, selected_titles) ==
    /\ Len(rows) = 1
    /\ rows[1].summary_content.kind = "summary"
    /\ rows[1].summary_content.n = Len(selected_titles)

\* C6: after a generate_pov_titles or generate_pov_outcomes run that fails,
\* the details and the summary of the report are each what the run writes in
\* full or what was there before, the details are not replaced without the
\* summary, and the titles are not persisted without the context.
C6_StageAtomicity ==
    [][/\ (Ran("p2") /\ req'[1].result = "500" /\ req'[1].stage = "handler")
          => LET rid == req'[1].rid
                 sel == GetSelectedTitles(pov_outcome_titles, rid)
                 d0 == RowsOf(pov_outcomes, rid)
                 d1 == RowsOf(pov_outcomes', rid)
                 s0 == RowsOf(pov_summary, rid)
                 s1 == RowsOf(pov_summary', rid)
             IN /\ d1 = d0 \/ IsRunDetails(d1, sel)
                /\ s1 = s0 \/ IsRunSummary(s1, sel)
                /\ (d1 # d0) => (s1 # s0 \/ IsRunSummary(s1, sel))
       /\ (req[1].kind = "p1" /\ req[1].pc = "p1_fail" /\ req'[1].pc = "done")
          => LET rid == req[1].rid
             IN RowsOf(pov_outcome_titles', rid) # <<>>
                    => pov_reports'[rid].context_data # <<>>]_vars

\* ------------------------------------------------------------------ C7
\* C7: once a detail-saving operation has been called for a report, the
\* report's rows are exactly the rows of that call: no row of an earlier call
\* remains and no outcome_index occurs twice.
C7_IdempotentOverwrite ==
    (req[1].pc = "done"
        /\ req[1].kind \in {"save_outcome_details", "save_selected_outcome_details"})
    => LET rows == RowsOf(pov_outcomes, req[1].rid)
       IN /\ \A i, j \in 1..Len(rows) :
                rows[i].outcome_index = rows[j].outcome_index => i = j
          /\ \/ \E outcomes \in StoreOutcomes :
                   rows = SaveOutcomeDetails(<<>>, req[1].rid, outcomes)
             \/ \E outcomes_data \in StoreOutcomesData :
                   rows = InsertSelectedOutcomes(<<>>, req[1].rid, outcomes_data)

\* ------------------------------------------------------------------ C8
\* C8: after a generate_pov_outcomes run that answers without an error, the
\* report's detail rows are exactly the rows that run wrote, one per title
\* selected at its start, whatever rows earlier runs left, and the report has
\* exactly one summary record, the one that run wrote; a selection update
\* changes neither.
C8_IterativeRefinement ==
    [][/\ (Ran("p2") /\ req'[1].result = "ok")
          => LET rid == req'[1].rid
                 sel == GetSelectedTitles(pov_outcome_titles, rid)
             IN \E gen \in Gens :
                  /\ RowsOf(pov_outcomes', rid) =
                        InsertSelectedOutcomes(<<>>, rid,
                            OutcomesData(sel, SelectedDetails(req'[1].ctx, sel, gen)))
                  /\ \E summary_ok \in BOOLEAN :
                        RowsOf(pov_summary', rid) =
                            InsertSummary(<<>>, rid,
                                SelectedSummary(req'[1].ctx, sel, gen, summary_ok))
       /\ Ran("sel") => UNCHANGED <<pov_outcomes, pov_summary>>]_vars

\* a second successful run: it found rows and a summary of an earlier call,
\* and it wrote fewer rows than there are titles
C8_Witness ==
    /\ Done("p2") /\ Result = "ok" /\ req[1].overwrite
    /\ req[1].from = "completed"
    /\ Len(RowsOf(pov_summary, 1)) = 1
    /\ Len(RowsOf(pov_outcomes, 1)) < Len(RowsOf(pov_outcome_titles, 1))

\* ------------------------------------------------------------------ C9
\* C9: a generate_pov_outcomes run that answers without an error stores
\* exactly one detail per title that was selected when it started, in
\* ascending title_index order, each with outcome_index equal to the title's
\* title_index and a content generated from that title's text, and none for an
\* unselected title.
C9_SelectedSubsetOnly ==
    [][(Ran("p2") /\ req'[1].result = "ok")
          => LET rid == req'[1].rid
                 titles == RowsOf(pov_outcome_titles, rid)
                 rows == RowsOf(pov_outcomes', rid)
             IN /\ \A i \in 1..Len(titles) :
                      titles[i].selected <=>
                          \E j \in 1..Len(rows) :
                              rows[j].outcome_index = titles[i].title_index
                /\ \A j \in 1..Len(rows) :
                      \E i \in 1..Len(titles) :
                          /\ titles[i].selected
                          /\ titles[i].title_index = rows[j].outcome_index
                          /\ rows[j].title = titles[i].title
                          /\ rows[j].content =
                                Completion(DetailPrompt(req'[1].ctx, titles[i].title),
                                           rows[j].content.gen)
                /\ \A j, k \in 1..Len(rows) :
                      j < k => rows[j].outcome_index < rows[k].outcome_index]_vars

\* a successful run over a proper subset of the titles that skips the first
C9_Witness ==
    /\ Done("p2") /\ Result = "ok"
    /\ Len(RowsOf(pov_outcome_titles, 1)) >= 2
    /\ ~RowsOf(pov_outcome_titles, 1)[1].selected
    /\ Len(RowsOf(pov_outcomes, 1)) = 1
    /\ RowsOf(pov_outcomes, 1)[1].outcome_index = 1

\* ------------------------------------------------------------------ C10
\* C10: for a report whose titles are persisted and that has a selected
\* title, whatever its status, a generate_pov_outcomes invocation by its owner
\* in which no call raises stops nowhere; a run that stops nowhere answers
\* without an error and leaves the status completed; the only refusal is the
\* one of an empty selection; and a run whose load of the stored context does
\* not raise uses the stored context, gathering nothing.
C10_Retry ==
    /\ [](\A rid \in ReportIds :
            (pov_reports[rid].exists /\ GetSelectedTitles(pov_outcome_titles, rid) # <<>>)
            => OutcomesStage(pov_reports, pov_outcome_titles, rid,
                             pov_reports[rid].user_id, TRUE, TRUE, Len(P2Writes)) = "")
    /\ [][Ran("p2")
            => LET rid == req'[1].rid
               IN /\ req'[1].stage = ""
                        => req'[1].result = "ok" /\ pov_reports'[rid].status = "completed"
                  /\ req'[1].result = "400"
                        => GetSelectedTitles(pov_outcome_titles, rid) = <<>>
                  /\ (/\ req'[1].stage \notin {"load", "validate"}
                      /\ pov_reports[rid].context_data # <<>>
                      /\ req'[1].ctx_load # "error")
                        => /\ req'[1].ctx_load = "loaded"
                           /\ req'[1].ctx = pov_reports[rid].context_data[1]]_vars

\* a run on a failed report that used the stored context and completed it
C10_Witness ==
    /\ Done("p2") /\ Result = "ok"
    /\ req[1].from = "failed" /\ req[1].ctx_load = "loaded"
    /\ pov_reports[1].status = "completed"

\* ------------------------------------------------------------------ C11
\* C11: whenever a generate_pov_outcomes run sets the status completed and
\* answers without an error, the summary it stored is a successful
\* completion, not the error placeholder, and the report has one detail row
\* per selected title.
C11_CompletedIsWhole ==
    [][(Ran("p2") /\ req'[1].result = "ok")
         => LET rid == req'[1].rid
            IN /\ pov_reports'[rid].status = "completed"
               /\ Len(RowsOf(pov_outcomes', rid))
                     = Len(GetSelectedTitles(pov_outcome_titles, rid))
               /\ \A i \in 1..Len(RowsOf(pov_summary', rid)) :
                     ~RowsOf(pov_summary', rid)[i].summary_content.error]_vars

\* ------------------------------------------------------------------ C12
\* C12: when some but not all calls of an llm_call batch of N prompts fail,
\* the batch does not raise: it returns a list of length N, input order kept,
\* whose entries at the failed indices are error values and whose other
\* entries are the completions of their prompts.
C12_PartialFailureIsolated ==
    (fan.failed # {} /\ Cardinality(fan.failed) < Len(fan.prompts))
        => /\ fan.pc = "returned"
           /\ Len(fan.returned) = Len(fan.prompts)
           /\ \A i \in 1..Len(fan.prompts) :
                 IF i \in fan.failed THEN fan.returned[i].error
                 ELSE fan.returned[i] = Completion(fan.prompts[i], fan.returned[i].gen)

\* ------------------------------------------------------------------ C13
\* C13: in Phase 1, Phase 2 and the full workflow, a run in which a store
\* write was rejected (a save returned False: the answer listed fewer rows
\* than were sent) does not answer as a success and leaves the report failed.
C13_RejectedWriteFails ==
    [][\A s \in SeqSlots :
         (/\ req[s].pc # "done" /\ req'[s].pc = "done"
          /\ req'[s].kind \in {"p1", "p2", "full"}
          /\ req'[s].short)
         => LET rid == IF req'[s].kind = "p2" THEN req'[s].rid ELSE req[s].rid
            IN /\ req'[s].result # "ok"
               /\ pov_reports'[rid].status = "failed"]_vars

\* ------------------------------------------------------------------ C14
GatherFinished == calc.op = "gather" /\ calc.pc \in {"returned", "raised"}

\* what a crawl that returns hands back
CrawlData(research_type, crawl) ==
    IF crawl = "empty" THEN <<>> ELSE <<research_type, "analysis">>

\* the documents of one side that were read, in list order
DocsRead(files) ==
    LET read == SelectSeq(files, LAMBDA f : f.exists /\ f.read = "data")
    IN [k \in 1..Len(read) |-> <<"document", read[k].name>>]

\* C14 as stated: for every combination of sub-task outcomes the gather does
\* not raise and gives a context, and when the customer research fails and
\* the vendor research succeeds the context holds the vendor research data
\* in the vendor section and "Not available" in the customer section.
C14_GatherResilient ==
    GatherFinished =>
        /\ calc.pc = "returned"
        /\ (/\ calc.arg.customer.url_given /\ calc.arg.customer.crawl = "raises"
            /\ calc.arg.vendor.url_given /\ calc.arg.vendor.crawl # "raises")
           => /\ calc.out.context[1]
                    = JsonDumps(CrawlData("vendor", calc.arg.vendor.crawl))
              /\ calc.out.context[2] = <<"Not available">>

\* C14: for every combination of sub-task outcomes (skipped, error, success)
\* the gather does not raise and gives a context in which each section is
\* determined by its own sub-task alone: a research section holds the crawl's
\* data when the crawl returned a non-empty result and "Not available"
\* otherwise (skipped, failed, or an empty result); a document section lists
\* exactly the documents of its side that were read, in order, or "No
\* documents provided"; the LinkedIn section holds the fetched text when it
\* is non-empty and "Not available or not requested" otherwise.
C14_GatherIsolated ==
    GatherFinished =>
        /\ calc.pc = "returned"
        /\ LET a == calc.arg
               context == calc.out.context
               Research(research_type, r) ==
                   IF r.url_given /\ r.crawl = "data"
                   THEN JsonDumps(CrawlData(research_type, r.crawl))
                   ELSE <<"Not available">>
               Docs(files) ==
                   IF DocsRead(files) # <<>> THEN JsonDumps(DocsRead(files))
                   ELSE <<"No documents provided">>
           IN /\ Len(context) = 5
              /\ context[1] = Research("vendor", a.vendor)
              /\ context[2] = Research("customer", a.customer)
              /\ context[3] = Docs(a.vendor_files)
              /\ context[4] = Docs(a.customer_files)
              /\ context[5] = IF a.linkedin.urls = "urls" /\ a.linkedin.fetch = "data"
                              THEN <<"profiles">>
                              ELSE <<"Not available or not requested">>

\* a gather has returned in which the customer crawl, a vendor document and
\* the LinkedIn fetch failed while the vendor crawl gave data
C14_Witness ==
    /\ calc.op = "gather" /\ calc.pc = "returned"
    /\ calc.arg.customer.url_given /\ calc.arg.customer.crawl = "raises"
    /\ calc.arg.vendor.url_given /\ calc.arg.vendor.crawl = "data"
    /\ Len(calc.arg.vendor_files) >= 1 /\ calc.arg.vendor_files[1].exists
    /\ calc.arg.vendor_files[1].read = "raises"
    /\ Len(calc.arg.customer_files) >= 1 /\ calc.arg.customer_files[1].exists
    /\ calc.arg.customer_files[1].read = "data"
    /\ calc.arg.linkedin.urls = "urls" /\ calc.arg.linkedin.fetch = "raises"
    /\ calc.out.context[1] = JsonDumps(<<"vendor", "analysis">>)
    /\ calc.out.context[2] = <<"Not available">>
    /\ calc.out.context[4] = JsonDumps(<<(<<"document", <<"customer", 1>>>>)>>)

\* ------------------------------------------------------------------ C15
\* C15: generate_pov_titles_only asked for N titles, on a title completion
\* that parses to a list of M titles: for M > N it returns the first N in
\* order; for 0 < M <= N it returns all M, unchanged, without an error; for
\* M = 0 it raises.
C15_TitleCountBounds ==
    (calc.op = "titles" /\ calc.pc \in {"returned", "raised"}
        /\ calc.arg.resp.shape = "list")
    => LET items == calc.arg.resp.items
           M == Len(items)
           N == calc.arg.num_outcomes
       IN /\ M > N => calc.pc = "returned" /\ calc.out = [i \in 1..N |-> items[i]]
          /\ (0 < M /\ M <= N) => calc.pc = "returned" /\ calc.out = items
          /\ M = 0 => calc.pc = "raised"

\* a call has returned whose completion listed more titles than asked for
C15_Witness ==
    /\ calc.op = "titles" /\ calc.pc = "returned"
    /\ calc.arg.resp.shape = "list"
    /\ Len(calc.arg.resp.items) > calc.arg.num_outcomes
    /\ Len(calc.out) = calc.arg.num_outcomes
    /\ calc.arg.resp.items[1] # calc.arg.resp.items[2]

\* ------------------------------------------------------------------ C16
\* the workflows that generate titles and the stages that follow the parse
\* of the title completion
AfterTitles ==
    {"p1_save_titles", "p1_save_grok", "p1_save_ctx", "p1_status",
     "full_details", "full_summary", "full_insert_summary", "full_status"}

\* C16: whenever generate_pov_titles or generate_pov_to_database persists
\* title rows, the title completion parsed to a list, and the rows of the
\* report are at least one and at most num_outcomes.
C16_RequestedCountRespected ==
    [][\A s \in SeqSlots :
         (/\ req[s].kind \in {"p1", "full"}
          /\ Len(pov_outcome_titles') > Len(pov_outcome_titles))
         => /\ req'[s].shape = "list"
            /\ Len(RowsOf(pov_outcome_titles', req[s].rid)) >= 1
            /\ Len(RowsOf(pov_outcome_titles', req[s].rid)) <= req[s].num_outcomes]_vars

\* ------------------------------------------------------------------ C17
\* C17: no run of generate_pov_titles or generate_pov_to_database is past
\* its title step (where the title rows are persisted and the detail and
\* summary completion calls are issued) unless the title completion parsed
\* to a non-empty list.
C17_InvalidTitlesStopRun ==
    \A s \in SeqSlots :
        (req[s].kind \in {"p1", "full"} /\ req[s].pc \in AfterTitles)
        => req[s].shape = "list" /\ req[s].titles # <<>>

\* ------------------------------------------------------------------ C18
SplitReturned == calc.op = "split" /\ calc.pc = "returned"

\* how often the marker occurs in the text handed in
MarkerCount == Cardinality({i \in 1..Len(calc.arg) : calc.arg[i] = "M"})

\* the text before the first marker, and the text after it
BeforeMarker ==
    LET at == {i \in 1..Len(calc.arg) : calc.arg[i] = "M"}
    IN IF at = {} THEN calc.arg
       ELSE SubSeq(calc.arg, 1, (CHOOSE i \in at : \A j \in at : i <= j) - 1)

AfterMarker == SubSeq(calc.arg, Len(BeforeMarker) + 2, Len(calc.arg))

\* C18 as stated: with the marker exactly once, summary_content is the
\* non-empty text before the marker and takeaways_content exactly the text
\* after it; without the marker, takeaways_content is empty and
\* summary_content is the whole text.
C18_SplitAtMarker ==
    SplitReturned =>
        /\ MarkerCount = 1 => /\ calc.out.summary_content = BeforeMarker
                              /\ calc.out.summary_content # <<>>
                              /\ calc.out.takeaways_content = AfterMarker
        /\ MarkerCount = 0 => /\ calc.out.takeaways_content = <<>>
                              /\ calc.out.summary_content = calc.arg

\* `trimmed` is `text` without the whitespace at its two ends
IsTrimOf(trimmed, text) ==
    /\ trimmed # <<>> => /\ trimmed[1] \notin Whitespace
                         /\ trimmed[Len(trimmed)] \notin Whitespace
    /\ \E a \in 0..Len(text) :
          /\ a + Len(trimmed) <= Len(text)
          /\ SubSeq(text, a + 1, a + Len(trimmed)) = trimmed
          /\ \A i \in 1..Len(text) :
                (i <= a \/ i > a + Len(trimmed)) => text[i] \in Whitespace

\* the words of a text, in order
Words(text) == SelectSeq(text, LAMBDA t : t \in {"x", "y"})

\* C18: with the marker exactly once, takeaways_content is the text after
\* the marker without the whitespace at its ends, and summary_content is the
\* text before the marker without its summary headers and without the
\* whitespace at its ends (the text before the marker trimmed, when it has no
\* header); it may be empty.  Without the marker, takeaways_content is empty
\* and summary_content is the whole text treated the same way.
C18_SplitTrimmed ==
    (SplitReturned /\ MarkerCount <= 1) =>
        /\ IF MarkerCount = 1 THEN IsTrimOf(calc.out.takeaways_content, AfterMarker)
           ELSE calc.out.takeaways_content = <<>>
        /\ Words(calc.out.summary_content) = Words(BeforeMarker)
        /\ Len(calc.out.summary_content) <= Len(BeforeMarker)
        /\ (\A i \in 1..Len(BeforeMarker) : BeforeMarker[i] # "H")
              => IsTrimOf(calc.out.summary_content, BeforeMarker)
        /\ calc.out.summary_content # <<>>
              => /\ calc.out.summary_content[1] \notin Whitespace
                 /\ calc.out.summary_content[Len(calc.out.summary_content)] \notin Whitespace
        /\ (BeforeMarker # <<>> /\ BeforeMarker[1] = "H")
              => Len(SelectSeq(calc.out.summary_content, LAMBDA t : t = "H"))
                    < Len(SelectSeq(BeforeMarker, LAMBDA t : t = "H"))

\* a text with a header, a word, the marker and a word has been split
C18_Witness ==
    /\ SplitReturned /\ MarkerCount = 1
    /\ calc.arg = <<"H", "x", "M", "y">>
    /\ calc.out.summary_content = <<"x">>
    /\ calc.out.takeaways_content = <<"y">>

RegatheredContexts ==
    {BuildFallbackContext(ProcessResearch("vendor", "phase2", TRUE),
                          ProcessResearch("customer", "phase2", TRUE), grok) :
        grok \in BOOLEAN}

\* C20: a generate_pov_outcomes run that reaches generate_selected_outcomes_only
\* gathers the context again if and only if the load of the stored context
\* fails (nothing stored, or the read raises); when the load succeeds, the
\* context of every detail prompt and of the summary prompt is the
\* background_context stored by Phase 1; in both cases one detail prompt per
\* selected title is handed to llm_call.
C20_ContextSource ==
    [][(Ran("p2") /\ req'[1].stage \notin {"load", "validate"})
         => LET rid == req'[1].rid
                prompts == req'[1].prompts
                selected_titles == GetSelectedTitles(pov_outcome_titles, rid)
                load_fails == \/ req'[1].ctx_load = "error"
                              \/ pov_reports[rid].context_data = <<>>
            IN /\ (req'[1].ctx \in RegatheredContexts) <=> load_fails
               /\ ~load_fails
                     => \A i \in 1..Len(prompts) :
                           prompts[i].ctx = pov_reports[rid].context_data[1]
               /\ Len(prompts) >= Len(selected_titles)
               /\ \A i \in 1..Len(selected_titles) :
                     prompts[i] = DetailPrompt(req'[1].ctx, selected_titles[i].title)
               /\ Len(prompts) > Len(selected_titles)
                     => prompts[Len(prompts)].kind = "summary"
                        /\ prompts[Len(prompts)].ctx = req'[1].ctx]_vars

\* a run has used the stored context for two detail prompts and the summary
\* prompt
C20_Witness ==
    /\ Done("p2") /\ Result = "ok"
    /\ req[1].ctx_load = "loaded"
    /\ Len(req[1].prompts) = 3
    /\ req[1].prompts[3].kind = "summary"
    /\ req[1].prompts[3].ctx = pov_reports[1].context_data[1]

\* ------------------------------------------------------------------ C21
\* C21: an update_selected_titles call by a user who does not own the
\* report ends with an error and leaves the selected flag of every title of
\* the report, and every other stored row, as it was: the call goes no
\* further than its ownership read.
C21_SelectionAuthorization ==
    [][\A s \in Slots :
         /\ (req[s].pc = "idle" /\ req'[s].kind = "selrun"
                /\ ~(pov_reports[req'[s].rid].exists
                     /\ pov_reports[req'[s].rid].user_id = req'[s].user))
              => /\ req'[s].pc = "done" /\ req'[s].result = "500"
                 /\ UNCHANGED store
         /\ (req'[s].kind = "selrun" /\ req'[s].pc \in {"reset", "set"})
              => /\ pov_reports'[req'[s].rid].exists
                 /\ pov_reports'[req'[s].rid].user_id = req'[s].user]_vars

\* a user who is not the owner has been refused on a report that has a
\* selected title and an unselected one
C21_Witness ==
    \E s \in Slots :
        /\ req[s].kind = "selrun" /\ req[s].pc = "done" /\ req[s].result = "500"
        /\ req[s].user = "u2" /\ req[s].rid = 1
        /\ pov_reports[1].exists /\ pov_reports[1].user_id = "u1"
        /\ SelectedIndices(pov_outcome_titles, 1) # {}
        /\ SelectedIndices(pov_outcome_titles, 1) # TitleIndices(pov_outcome_titles, 1)

\* ------------------------------------------------------------------ C26
\* C26: after update_selected_titles(report, owner, S) has returned, the
\* selected title indices of the report are exactly those of S that exist,
\* whatever was selected before; and no statement of the call changes a
\* title's text or index, a detail row, a summary row or a report row (its
\* status included).
C26_SelectionReplaced ==
    [][\A s \in Slots :
         (req[s].kind = "selrun" /\ req[s].pc \in {"reset", "set"} /\ req'[s] # req[s])
            => /\ req'[s].result = "ok"
                    => SelectedIndices(pov_outcome_titles', req[s].rid)
                         = req[s].indices \cap TitleIndices(pov_outcome_titles, req[s].rid)
               /\ Len(pov_outcome_titles') = Len(pov_outcome_titles)
               /\ \A i \in 1..Len(pov_outcome_titles) :
                    /\ [pov_outcome_titles'[i] EXCEPT !.selected = FALSE]
                         = [pov_outcome_titles[i] EXCEPT !.selected = FALSE]
                    /\ pov_outcome_titles[i].report_id # req[s].rid
                         => pov_outcome_titles'[i] = pov_outcome_titles[i]
               /\ UNCHANGED <<pov_reports, pov_outcomes, pov_summary, grok_research>>]_vars

\* a returned call whose list names an index no title has and which changed
\* the selection, with a title selected and a title left unselected
C26_Witness ==
    \E s \in Slots :
        /\ req[s].kind = "selrun" /\ req[s].pc = "done" /\ req[s].result = "ok"
        /\ ~(req[s].indices \subseteq TitleIndices(pov_outcome_titles, req[s].rid))
        /\ SelectedIndices(pov_outcome_titles, req[s].rid) # {}
        /\ SelectedIndices(pov_outcome_titles, req[s].rid)
             # TitleIndices(pov_outcome_titles, req[s].rid)
        /\ req[s].before # {}
        /\ req[s].before # SelectedIndices(pov_outcome_titles, req[s].rid)

DetailRuns(rid) ==
    {pov_outcomes[i].content.gen :
        i \in {j \in 1..Len(pov_outcomes) : pov_outcomes[j].report_id = rid}}

SummaryRuns(rid) ==
    {pov_summary[i].summary_content.gen :
        i \in {j \in 1..Len(pov_summary) : pov_summary[j].report_id = rid}}

IndexTwice(rid) ==
    \E i, j \in 1..Len(pov_outcomes) :
        /\ i < j
        /\ pov_outcomes[i].report_id = rid /\ pov_outcomes[j].report_id = rid
        /\ pov_outcomes[i].outcome_index = pov_outcomes[j].outcome_index

\* C23: two overlapping Phase 2 runs of one report are not serialized.  What
\* holds of every interleaving of their deletes and inserts: an outcome_index
\* stored twice, and a second summary record, are always rows of two
\* different runs (one run writes each index once and one summary); that such
\* a state is reached is the witness below.
C23_MixOnlyAcrossRuns ==
    /\ \A i, j \in 1..Len(pov_outcomes) :
          (i < j /\ pov_outcomes[i].report_id = pov_outcomes[j].report_id
                 /\ pov_outcomes[i].outcome_index = pov_outcomes[j].outcome_index)
             => pov_outcomes[i].content.gen # pov_outcomes[j].content.gen
    /\ \A i, j \in 1..Len(pov_summary) :
          (i < j /\ pov_summary[i].report_id = pov_summary[j].report_id)
             => pov_summary[i].summary_content.gen # pov_summary[j].summary_content.gen

\* both runs have answered success; the detail rows of both are stored, an
\* outcome_index occurs twice and the report has two summary records
C23_Witness ==
    /\ \A s \in Slots : req[s].kind = "p2run" /\ req[s].pc = "done" /\ req[s].result = "ok"
    /\ DetailRuns(1) = {1, 2}
    /\ IndexTwice(1)
    /\ Len(RowsOf(pov_summary, 1)) > 1 /\ SummaryRuns(1) = {1, 2}
    /\ pov_reports[1].status = "completed"

\* ------------------------------------------------------------------ C28
\* C28: a Phase 2 run that reads the selected titles while an
\* update_selected_titles call for the report is in progress reads either the
\* whole selection from before the update or the whole requested selection,
\* never an empty or partial one in between.
C28_SelectionReadAtomically ==
    [][\A s, t \in Slots :
         (/\ req[s].pc = "idle" /\ req'[s].kind = "p2run"
          /\ req[t].kind = "selrun" /\ req[t].pc \in {"reset", "set"}
          /\ req'[s].rid = req[t].rid /\ req'[s].result # "500")
            => {req'[s].titles[i].title_index : i \in 1..Len(req'[s].titles)}
                 \in {req[t].before,
                      req[t].indices \cap TitleIndices(pov_outcome_titles, req[t].rid)}]_vars

\* ------------------------------------------------------------------ C24
\* the status a run writes when nothing raised
StatusOf(kind) == IF kind = "titles" THEN "titles_generated" ELSE "completed"

\* C24: increment_user_report_count is called only by a Phase 1 run that has
\* written titles_generated or a full run that has written completed; it is
\* called at most once for a report, never by a run that ends with failed,
\* never by a Phase 2 run, and the counter changes through no other step.
C24_ChargedAfterSuccess ==
    [][\A u \in Users :
         /\ \A rid \in 1..Len(accounts[u].reports) :
              accounts'[u].reports[rid].charged # accounts[u].reports[rid].charged
                 => /\ accounts[u].reports[rid].charged = 0
                    /\ accounts'[u].reports[rid].charged = 1
                    /\ \E s \in Slots :
                         /\ req[s].user = u /\ req[s].rid = rid
                         /\ req[s].kind \in {"titles", "database"}
                         /\ req[s].stage = StatusOf(req[s].kind)
                         /\ req'[s].pc = "done" /\ req'[s].result = "ok"
         /\ accounts'[u].used # accounts[u].used
              => \E rid \in 1..Len(accounts[u].reports) :
                   accounts'[u].reports[rid].charged # accounts[u].reports[rid].charged
         /\ \A s \in Slots :
              (req[s].user = u /\ req[s].pc # "done" /\ req'[s].pc = "done"
                 /\ req'[s].stage = "failed" /\ req[s].kind \in {"titles", "database"})
                 => accounts'[u].reports[req[s].rid].charged = 0]_vars

\* a report charged once and completed by a Phase 2 run, beside a report of
\* a failed run that was not charged
C24_Witness ==
    \E i, j \in 1..Len(accounts["u1"].reports) :
        /\ accounts["u1"].reports[i].charged = 1
        /\ accounts["u1"].reports[i].status = "completed"
        /\ accounts["u1"].reports[j].charged = 0
        /\ accounts["u1"].reports[j].status = "failed"
        /\ accounts["u1"].used = 1
        /\ \E s \in Slots : req[s].kind = "outcomes" /\ req[s].pc = "done"
                            /\ req[s].rid = i /\ req[s].result = "ok"

\* ------------------------------------------------------------------ C25
\* C25: in both generation endpoints a check_user_report_quota that returns
\* false is answered with 429, and no report row is made, no generation is
\* started and the user's counter is as it was.
C25_QuotaRefusal ==
    [][\A s \in Slots :
         (req[s].pc = "idle" /\ req'[s].stage = "quota")
            => /\ req'[s].result = "429" /\ req'[s].pc = "done"
               /\ UNCHANGED <<store, accounts>>]_vars

\* ------------------------------------------------------------------ C27
\* the user's reports that are titles_generated or completed
Generated(u) ==
    {i \in 1..Len(accounts[u].reports) :
        accounts[u].reports[i].status \in {"titles_generated", "completed"}}

\* C27: whatever the interleaving of the generation requests of a user with
\* quota Q, at most Q of the user's reports are titles_generated or completed.
C27_QuotaNeverExceeded ==
    \A u \in Users : Cardinality(Generated(u)) <= accounts[u].quota

\* ------------------------------------------------------------------ C29
\* the contexts that end with the Grok research block
ContextsWithGrok ==
    {BuildFallbackContext(ProcessResearch("vendor", gather, TRUE),
                          ProcessResearch("customer", gather, TRUE), TRUE) :
        gather \in {"phase1", "phase2"}}

\* C29: when Grok research was saved for the report in Phase 1, the context
\* of every detail prompt and of the summary prompt of a later
\* generate_pov_outcomes run contains the Grok research block, whether the
\* stored context is used or the context is gathered again.
C29_GrokInPrompts ==
    [][(/\ Ran("p2") /\ req'[1].prompts # <<>>
        /\ \E i \in 1..Len(grok_research) : grok_research[i].report_id = req'[1].rid)
         => \A i \in 1..Len(req'[1].prompts) :
               req'[1].prompts[i].ctx \in ContextsWithGrok]_vars

\* ------------------------------------------------------------------ C30
\* the formatted profiles of the URLs whose fetch returned a profile, in the
\* order of the URLs
RECURSIVE FetchedProfiles(_, _)
FetchedProfiles(fetch, i) ==
    IF i > Len(fetch) THEN <<>>
    ELSE (IF fetch[i] = "profile" THEN <<<<"formatted", i>>>> ELSE <<>>)
         \o FetchedProfiles(fetch, i + 1)

\* C30: fetch_profiles_in_threads returns the formatted profiles in the order
\* of the extracted URLs, and when the fetch of one URL fails the profiles
\* fetched for the other URLs are still in the returned text.
C30_FetchedProfilesReturned ==
    (calc.op = "profiles" /\ calc.pc \in {"returned", "raised"})
       => /\ calc.pc = "returned"
          /\ calc.out.text = FetchedProfiles(calc.arg, 1)

=============================================================================
